---- MODULE Spec2Model ----
(***************************************************************************)
(* Client-side state of the CinemaVerse front end: the dual-tier store     *)
(* (sessionStorage + cookies), the session authority (AuthService), the   *)
(* two collection caches (CartService, FavoriteService), the               *)
(* BookingService and the authInterceptor.                                 *)
(*                                                                         *)
(* JavaScript values are tagged records; a stored text is a sequence of    *)
(* characters, so that JSON.stringify / JSON.parse / encodeURIComponent    *)
(* are computed and a round trip through a tier can fail.  The JSON text   *)
(* of a structured value (an object or an array) is one token character    *)
(* [json |-> v] carrying the value in its JSON form.                       *)
(* Time (Date.now()) is counted in seconds: the source's factor 1000       *)
(* between expiresIn and epoch milliseconds is dropped.                    *)
(***************************************************************************)
EXTENDS Integers, Sequences, FiniteSets, TLC

VARIABLES
    now,             \* Date.now()
    sessionStorage,  \* short-lived tier: key -> NoItem | Item(text)
    cookies,         \* long-lived tier (document.cookie): key -> NoItem | Item(encoded text)
    currentUser,     \* AuthService.currentUser
    isAuthenticated, \* AuthService.isAuthenticated
    authOutcome,     \* how the last AuthService construction ended
    issuedToken,     \* history: <<token>> of the last login not yet logged out, else <<>>
    callbacks,       \* onLoginCallbacks / onLogoutCallbacks: the services registered, in order
    timers,          \* pending setTimeout(() => notifyLogin(id), 0) callbacks
    requests,        \* HTTP requests in flight
    cartItems,       \* CartService.cartItems
    cartUserId,      \* CartService.currentUserId
    favoriteItems,   \* FavoriteService.favoriteItems
    favUserId,       \* FavoriteService.currentUserId
    bookings,        \* BookingService.bookings
    probe,           \* the values a client of the store wrote under its own keys
    atLogout,        \* history: what the caches held when the logout callbacks last ran
    last             \* history: the operation that made the last step, with its inputs

vars == <<now, sessionStorage, cookies, currentUser, isAuthenticated, authOutcome,
          issuedToken, callbacks, timers, requests, cartItems, cartUserId, favoriteItems, favUserId,
          bookings, probe, atLogout, last>>

authVars  == <<currentUser, isAuthenticated, authOutcome, issuedToken, callbacks, timers>>
cartVars  == <<cartItems, cartUserId>>
favVars   == <<favoriteItems, favUserId>>
storeVars == <<sessionStorage, cookies>>

(***************************************************************************)
(* Bounds of the model and constants of the program.                       *)
(***************************************************************************)
MAX_QUANTITY_PER_ITEM == 99
DEFAULT_TOKEN_EXPIRY == 2592000

\* quantities below -MaxDebt are not explored
MaxDebt == 1
\* HTTP requests in flight at one time
MaxInFlight == 1
\* the clock stops at MaxTime
MaxTime == 3

Users == {"u1", "u2"}
NoUser == "<null>"

(***************************************************************************)
(* JavaScript values.                                                      *)
(***************************************************************************)
Ch(s) == [c |-> s]
Null == [t |-> "null"]
Str(s) == [t |-> "str", s |-> s]
Num(n) == [t |-> "num", n |-> n]
UserObj(u) == [t |-> "user", user |-> u]
CartList(items) == [t |-> "cart", cart |-> items]
FavList(items) == [t |-> "favs", favs |-> items]

IsChar(ch) == "c" \in DOMAIN ch
Chars(s) == [i \in 1..Len(s) |-> Ch(s[i])]

\* JavaScript truthiness of a value: null, "" and 0 are falsy
Truthy(v) ==
    CASE v.t = "null" -> FALSE
      [] v.t = "str" -> v.s # <<>>
      [] v.t = "num" -> v.n # 0
      [] OTHER -> TRUE

DigitChars == <<"0", "1", "2", "3", "4", "5", "6", "7", "8", "9">>
IsDigit(ch) == IsChar(ch) /\ \E i \in 1..10 : DigitChars[i] = ch.c
DigitValue(ch) == (CHOOSE i \in 1..10 : DigitChars[i] = ch.c) - 1

RECURSIVE Digits(_)
\* Number.prototype.toString of a non-negative integer
Digits(n) ==
    IF n < 10 THEN <<Ch(DigitChars[n + 1])>>
    ELSE Digits(n \div 10) \o <<Ch(DigitChars[(n % 10) + 1])>>

RECURSIVE DigitsValue(_)
DigitsValue(s) ==
    IF s = <<>> THEN 0
    ELSE 10 * DigitsValue(SubSeq(s, 1, Len(s) - 1)) + DigitValue(s[Len(s)])

RECURSIVE DigitPrefix(_)
\* the longest prefix of s made of digits
DigitPrefix(s) ==
    IF s = <<>> \/ ~IsDigit(Head(s)) THEN <<>>
    ELSE <<Head(s)>> \o DigitPrefix(Tail(s))

\* String(v), the coercion parseInt and JSON.parse apply to a non-string
ToStringJS(v) ==
    CASE v.t = "str" -> v.s
      [] v.t = "num" -> Digits(v.n)
      [] v.t = "null" -> Chars(<<"n", "u", "l", "l">>)
      [] OTHER -> Chars(<<"[", "o", "b", "j", "e", "c", "t", "]">>)

\* parseInt(v, 10): [nan |-> TRUE] or the number of the leading digits
ParseInt(v) ==
    LET p == DigitPrefix(ToStringJS(v))
    IN  IF p = <<>> THEN [nan |-> TRUE] ELSE [nan |-> FALSE, n |-> DigitsValue(p)]

\* NotExpired with the instant of expiry counted as still valid
NotExpired_Inclusive(t, expiryTime) == ~expiryTime.nan /\ t <= expiryTime.n

\* Date.now() < expiryTime, false when expiryTime is NaN
NotExpired(t, expiryTime) == ~expiryTime.nan /\ t < expiryTime.n

(***************************************************************************)
(* JSON.                                                                   *)
(***************************************************************************)
Quote == Ch("\"")
Backslash == Ch("\\")

\* Date.prototype.toJSON: a Date is serialized as its ISO string
DateToJSON(d) == [iso |-> d.ms]
FavToJSON(f) ==
    IF "ms" \in DOMAIN f.addedAt THEN [f EXCEPT !.addedAt = DateToJSON(f.addedAt)] ELSE f

\* the JSON form of a structured value
ToJSON(v) ==
    IF v.t = "favs" THEN FavList([i \in 1..Len(v.favs) |-> FavToJSON(v.favs[i])]) ELSE v

RECURSIVE Escape(_)
\* the escaping of quotes and backslashes inside a JSON string literal
Escape(s) ==
    IF s = <<>> THEN <<>>
    ELSE IF Head(s) = Quote \/ Head(s) = Backslash
         THEN <<Backslash, Head(s)>> \o Escape(Tail(s))
         ELSE <<Head(s)>> \o Escape(Tail(s))

RECURSIVE WellEscaped(_)
WellEscaped(s) ==
    IF s = <<>> THEN TRUE
    ELSE IF Head(s) = Backslash
         THEN Len(s) >= 2 /\ (s[2] = Quote \/ s[2] = Backslash)
              /\ WellEscaped(SubSeq(s, 3, Len(s)))
         ELSE Head(s) # Quote /\ WellEscaped(Tail(s))

RECURSIVE Unescape(_)
Unescape(s) ==
    IF s = <<>> THEN <<>>
    ELSE IF Head(s) = Backslash
         THEN <<s[2]>> \o Unescape(SubSeq(s, 3, Len(s)))
         ELSE <<Head(s)>> \o Unescape(Tail(s))

JSONStringify(v) ==
    CASE v.t = "str" -> <<Quote>> \o Escape(v.s) \o <<Quote>>
      [] v.t = "num" -> Digits(v.n)
      [] v.t = "null" -> Chars(<<"n", "u", "l", "l">>)
      [] OTHER -> <<[json |-> ToJSON(v)]>>

IsJSONNumber(text) ==
    /\ text # <<>>
    /\ \A i \in 1..Len(text) : IsDigit(text[i])
    /\ (Len(text) = 1 \/ text[1] # Ch("0"))

IsJSONString(text) ==
    /\ Len(text) >= 2
    /\ text[1] = Quote
    /\ text[Len(text)] = Quote
    /\ WellEscaped(SubSeq(text, 2, Len(text) - 1))

\* JSON.parse: [ok |-> FALSE] is a SyntaxError
JSONParse(text) ==
    CASE Len(text) = 1 /\ "json" \in DOMAIN text[1] -> [ok |-> TRUE, v |-> text[1].json]
      [] text = Chars(<<"n", "u", "l", "l">>) -> [ok |-> TRUE, v |-> Null]
      [] IsJSONNumber(text) -> [ok |-> TRUE, v |-> Num(DigitsValue(text))]
      [] IsJSONString(text) ->
            [ok |-> TRUE, v |-> Str(Unescape(SubSeq(text, 2, Len(text) - 1)))]
      [] OTHER -> [ok |-> FALSE]

(***************************************************************************)
(* encodeURIComponent / decodeURIComponent.                                *)
(***************************************************************************)
\* the characters of the model's alphabet that encodeURIComponent escapes
Reserved == {"\"", "\\", "+", "%", "[", "]"}
HexOf(c) ==
    CASE c = "\"" -> <<"2", "2">>
      [] c = "\\" -> <<"5", "C">>
      [] c = "+" -> <<"2", "B">>
      [] c = "%" -> <<"2", "5">>
      [] c = "[" -> <<"5", "B">>
      [] c = "]" -> <<"5", "D">>

RECURSIVE EncodeURIComponent(_)
EncodeURIComponent(s) ==
    IF s = <<>> THEN <<>>
    ELSE LET h == Head(s)
         IN  (IF ~IsChar(h) THEN <<[enc |-> h.json]>>
              ELSE IF h.c \in Reserved THEN <<Ch("%")>> \o Chars(HexOf(h.c))
              ELSE <<h>>)
             \o EncodeURIComponent(Tail(s))

RECURSIVE DecodeURIComponent(_)
\* defined on the texts EncodeURIComponent produces
DecodeURIComponent(s) ==
    IF s = <<>> THEN <<>>
    ELSE LET h == Head(s)
         IN  IF ~IsChar(h) THEN <<[json |-> h.enc]>> \o DecodeURIComponent(Tail(s))
             ELSE IF h.c = "%"
                  THEN <<Ch(CHOOSE c \in Reserved :
                               HexOf(c) = <<s[2].c, s[3].c>>)>>
                       \o DecodeURIComponent(SubSeq(s, 4, Len(s)))
                  ELSE <<h>> \o DecodeURIComponent(Tail(s))

(***************************************************************************)
(* StorageService.                                                         *)
(***************************************************************************)
NoItem == [none |-> TRUE]
Item(text) == [text |-> text]
Has(store, key) == "text" \in DOMAIN store[key]

\* sessionStorage.setItem(key, JSON.stringify(value))
SetSessionItem(ss, key, value) == [ss EXCEPT ![key] = Item(JSONStringify(value))]

\* item ? JSON.parse(item) : null, a SyntaxError caught and turned into null
GetSessionItem(ss, key) ==
    IF ~Has(ss, key) \/ ss[key].text = <<>> THEN Null
    ELSE LET r == JSONParse(ss[key].text) IN IF r.ok THEN r.v ELSE Null

RemoveSessionItem(ss, key) == [ss EXCEPT ![key] = NoItem]

\* a string is written raw, any other value as its JSON text
CookieValue(value) == IF value.t = "str" THEN value.s ELSE JSONStringify(value)

SetCookie(ck, name, value) ==
    [ck EXCEPT ![name] = Item(EncodeURIComponent(CookieValue(value)))]

\* JSON.parse of the decoded text, the decoded text itself when that throws
GetCookie(ck, name) ==
    IF ~Has(ck, name) THEN Null
    ELSE LET value == DecodeURIComponent(ck[name].text)
             r == JSONParse(value)
         IN  IF r.ok THEN r.v ELSE Str(value)

DeleteCookie(ck, name) == [ck EXCEPT ![name] = NoItem]

STORAGE_KEY == "auth_user"
TOKEN_KEY == "auth_token"
TOKEN_EXPIRY_KEY == "auth_token_expiry"
AuthKeys == {STORAGE_KEY, TOKEN_KEY, TOKEN_EXPIRY_KEY}
CART_STORAGE_PREFIX == "cart_user_"
STORAGE_PREFIX == "fav_user_"
\* the keys of some other client of the store
ProbeKeys == {"k1", "k2"}
Keys == AuthKeys \cup {CART_STORAGE_PREFIX \o u : u \in Users} \cup {"cart_guest"}
                 \cup {STORAGE_PREFIX \o u : u \in Users} \cup {"fav_guest"}
                 \cup ProbeKeys

EmptyStore == [k \in Keys |-> NoItem]

\* the read of a key through both tiers, as in getToken: getSessionItem(key) ||
\* getCookie(key)
ReadThrough(key) ==
    IF Truthy(GetSessionItem(sessionStorage, key)) THEN GetSessionItem(sessionStorage, key)
    ELSE GetCookie(cookies, key)

\* the values a client hands to the store
StoreValues ==
    { Null, Num(0), Num(7), Str(<<>>), Str(Chars(<<"t", "k">>)), Str(Chars(<<"7">>)),
      Str(Chars(<<"a", "+", "b">>)), Str(Chars(<<"\"", "a", "\"">>)),
      UserObj([id |-> "u1", name |-> "Ann"]),
      CartList(<<[productId |-> "p1", name |-> "Dune", maxStock |-> <<>>, quantity |-> 1]>>) }

\* a value is written under a key to both tiers: setSessionItem and setCookie
StoreSet(key, value) ==
    /\ sessionStorage' = SetSessionItem(sessionStorage, key, value)
    /\ cookies' = SetCookie(cookies, key, value)
    /\ probe' = [probe EXCEPT ![key] = [v |-> value]]
    /\ last' = [op |-> "storeSet", key |-> key]
    /\ UNCHANGED <<now, currentUser, isAuthenticated, authOutcome, issuedToken, callbacks, timers,
                   requests, cartItems, cartUserId, favoriteItems, favUserId, atLogout,
                   bookings>>

\* a key is removed from both tiers: removeSessionItem and deleteCookie
StoreRemove(key) ==
    /\ sessionStorage' = RemoveSessionItem(sessionStorage, key)
    /\ cookies' = DeleteCookie(cookies, key)
    /\ probe' = [probe EXCEPT ![key] = NoItem]
    /\ last' = [op |-> "storeRemove", key |-> key]
    /\ UNCHANGED <<now, currentUser, isAuthenticated, authOutcome, issuedToken, callbacks, timers,
                   requests, cartItems, cartUserId, favoriteItems, favUserId, atLogout,
                   bookings>>

\* clearSession, or the end of the tab: sessionStorage.clear()
ClearSession ==
    /\ sessionStorage' = EmptyStore
    /\ last' = [op |-> "clearSession"]
    /\ UNCHANGED <<now, cookies, currentUser, isAuthenticated, authOutcome, issuedToken, callbacks,
                   timers, requests, cartItems, cartUserId, favoriteItems, favUserId,
                   probe, bookings, atLogout>>

(***************************************************************************)
(* CartService.                                                            *)
(***************************************************************************)
\* maxStock?: number is <<>> when undefined and <<n>> otherwise
NoStock == <<>>
\* product.maxStock && ... : undefined and 0 are falsy
HasStock(m) == m # NoStock /\ m[1] # 0

\* the products the callers pass to addToCart (Omit<CartItem, 'quantity'>)
ProductArgs ==
    { [productId |-> "p1", name |-> "Dune", maxStock |-> NoStock],
      [productId |-> "p1", name |-> "Dune", maxStock |-> <<2>>],
      [productId |-> "p2", name |-> "Heat", maxStock |-> <<3>>] }
ProductIds == {p.productId : p \in ProductArgs}
\* the quantities the callers request
QuantityArgs == {-1, 0, 1, 2, 3, 50, 98, 99, 100}
\* the quantities requested around a merge
MergeQuantityArgs == {0, 4, 50, 100}

\* Array.prototype.findIndex by productId: 0 stands for -1 (not found)
FindIndex(items, productId) ==
    IF \E i \in 1..Len(items) : items[i].productId = productId
    THEN CHOOSE i \in 1..Len(items) :
            /\ items[i].productId = productId
            /\ \A j \in 1..(i - 1) : items[j].productId # productId
    ELSE 0

RECURSIVE Filter(_, _)
\* items.filter(item => item.productId !== productId)
Filter(items, productId) ==
    IF items = <<>> THEN <<>>
    ELSE IF Head(items).productId = productId THEN Filter(Tail(items), productId)
         ELSE <<Head(items)>> \o Filter(Tail(items), productId)

\* getStorageKey
CartKey(userId) == IF userId = NoUser THEN "cart_guest" ELSE CART_STORAGE_PREFIX \o userId

\* SaveCartSession without the test of the user id
SaveCartSession_Unguarded(ss, userId, items) ==
    SetSessionItem(ss, CartKey(userId), CartList(items))

\* saveCartToStorage: both tiers after the write, nothing when no user is active
SaveCartSession(ss, userId, items) ==
    IF userId = NoUser THEN ss ELSE SetSessionItem(ss, CartKey(userId), CartList(items))
\* SaveCartCookie that writes nothing
SaveCartCookie_Never(ck, userId, items) == ck

SaveCartCookie(ck, userId, items) ==
    IF userId = NoUser THEN ck ELSE SetCookie(ck, CartKey(userId), CartList(items))

\* loadCartFromStorage: sessionStorage first, the cookie when that is falsy, else []
LoadCartFromStorage(ss, ck, userId) ==
    IF userId = NoUser THEN <<>>
    ELSE LET cartJson == GetSessionItem(ss, CartKey(userId))
             cookieCart == GetCookie(ck, CartKey(userId))
         IN  IF Truthy(cartJson) THEN cartJson.cart
             ELSE IF Truthy(cookieCart) THEN cookieCart.cart
             ELSE <<>>

\* AddToCartResult without the lookup of an existing line
AddToCartResult_AlwaysAppend(items, product, quantity) ==
    IF (HasStock(product.maxStock) /\ quantity > product.maxStock[1])
       \/ quantity > MAX_QUANTITY_PER_ITEM
    THEN [ok |-> FALSE]
    ELSE [ok |-> TRUE,
          items |-> Append(items, [productId |-> product.productId,
                                   name |-> product.name,
                                   maxStock |-> product.maxStock,
                                   quantity |-> quantity])]

\* the cart addToCart leaves: [ok |-> FALSE] when the call returns early
AddToCartResult(items, product, quantity) ==
    LET existingItemIndex == FindIndex(items, product.productId)
    IN  IF existingItemIndex > 0
        THEN LET newQuantity == items[existingItemIndex].quantity + quantity
             IN  IF HasStock(product.maxStock) /\ newQuantity > product.maxStock[1]
                 THEN [ok |-> FALSE]
                 ELSE IF newQuantity > MAX_QUANTITY_PER_ITEM
                 THEN [ok |-> FALSE]
                 ELSE [ok |-> TRUE,
                       items |-> [items EXCEPT ![existingItemIndex].quantity = newQuantity]]
        ELSE IF HasStock(product.maxStock) /\ quantity > product.maxStock[1]
             THEN [ok |-> FALSE]
             ELSE IF quantity > MAX_QUANTITY_PER_ITEM
             THEN [ok |-> FALSE]
             ELSE [ok |-> TRUE,
                   items |-> Append(items, [productId |-> product.productId,
                                            name |-> product.name,
                                            maxStock |-> product.maxStock,
                                            quantity |-> quantity])]

\* the cart updateQuantity leaves for a positive quantity: [ok |-> FALSE] when
\* the call returns without a write
UpdateQuantityResult(items, productId, quantity) ==
    LET itemIndex == FindIndex(items, productId)
    IN  IF quantity > MAX_QUANTITY_PER_ITEM THEN [ok |-> FALSE]
        ELSE IF itemIndex = 0 THEN [ok |-> FALSE]
        ELSE IF HasStock(items[itemIndex].maxStock)
                /\ quantity > items[itemIndex].maxStock[1]
        THEN [ok |-> FALSE]
        ELSE [ok |-> TRUE, items |-> [items EXCEPT ![itemIndex].quantity = quantity]]

\* the in-memory cart is replaced and written through
SetAndSaveCart(items) ==
    /\ cartItems' = items
    /\ sessionStorage' = SaveCartSession(sessionStorage, cartUserId, items)
    /\ cookies' = SaveCartCookie(cookies, cartUserId, items)

CartFrame == UNCHANGED <<now, authVars, requests, favVars, probe, bookings, atLogout, cartUserId>>

AddToCart(product, quantity) ==
    \E r \in {AddToCartResult(cartItems, product, quantity)} :
        /\ \A i \in 1..Len(cartItems) :
              cartItems[i].productId = product.productId
                  => cartItems[i].quantity + quantity >= -MaxDebt
        /\ quantity >= -MaxDebt
        /\ IF r.ok THEN SetAndSaveCart(r.items)
           ELSE UNCHANGED <<cartItems, storeVars>>
        /\ last' = [op |-> "addToCart", by |-> cartUserId, ok |-> r.ok,
                    existed |-> FindIndex(cartItems, product.productId) > 0,
                    lenBefore |-> Len(cartItems)]
        /\ CartFrame

RemoveFromCart(productId) ==
    /\ SetAndSaveCart(Filter(cartItems, productId))
    /\ last' = [op |-> "removeFromCart", by |-> cartUserId]
    /\ CartFrame

\* updateQuantity, which is removeFromCart for a quantity of zero or less
UpdateQuantityBody(productId, quantity) ==
    IF quantity <= 0 THEN SetAndSaveCart(Filter(cartItems, productId))
    ELSE LET r == UpdateQuantityResult(cartItems, productId, quantity)
         IN  IF r.ok THEN SetAndSaveCart(r.items)
             ELSE UNCHANGED <<cartItems, storeVars>>

\* updateQuantity(productId, quantity) reaches a cartItems.set
UpdateApplies(items, productId, quantity) ==
    quantity <= 0 \/ UpdateQuantityResult(items, productId, quantity).ok

UpdateQuantity(productId, quantity) ==
    /\ UpdateQuantityBody(productId, quantity)
    /\ last' = [op |-> "updateQuantity", by |-> cartUserId,
                ok |-> UpdateApplies(cartItems, productId, quantity)]
    /\ CartFrame

IncrementQuantity(productId) ==
    LET i == FindIndex(cartItems, productId)
    IN  /\ IF i > 0 THEN UpdateQuantityBody(productId, cartItems[i].quantity + 1)
           ELSE UNCHANGED <<cartItems, storeVars>>
        /\ last' = [op |-> "incrementQuantity", by |-> cartUserId,
                    ok |-> i > 0 /\ UpdateApplies(cartItems, productId,
                                                  cartItems[i].quantity + 1)]
        /\ CartFrame

DecrementQuantity(productId) ==
    LET i == FindIndex(cartItems, productId)
    IN  /\ IF i > 0 THEN UpdateQuantityBody(productId, cartItems[i].quantity - 1)
           ELSE UNCHANGED <<cartItems, storeVars>>
        /\ last' = [op |-> "decrementQuantity", by |-> cartUserId,
                    ok |-> i > 0 /\ UpdateApplies(cartItems, productId,
                                                  cartItems[i].quantity - 1)]
        /\ CartFrame

\* clearCart: the cart is emptied and, when a user is active, the user's entry is
\* removed from both tiers
ClearCart ==
    /\ cartItems' = <<>>
    /\ IF cartUserId # NoUser
       THEN /\ sessionStorage' = RemoveSessionItem(sessionStorage, CartKey(cartUserId))
            /\ cookies' = DeleteCookie(cookies, CartKey(cartUserId))
       ELSE UNCHANGED storeVars
    /\ last' = [op |-> "clearCart", by |-> cartUserId]
    /\ CartFrame

\* Math.min of three numbers
Min3(a, b, c) ==
    IF a <= b /\ a <= c THEN a ELSE IF b <= c THEN b ELSE c

RECURSIVE MergeCart(_, _)
\* mergeCartOnLogin's loop: the local items folded, in order, into mergedCart
MergeCart(mergedCart, localCart) ==
    IF localCart = <<>> THEN mergedCart
    ELSE LET localItem == Head(localCart)
             existingIndex == FindIndex(mergedCart, localItem.productId)
         IN  IF existingIndex > 0
             THEN LET combinedQuantity ==
                          mergedCart[existingIndex].quantity + localItem.quantity
                      maxQuantity ==
                          Min3(combinedQuantity,
                               IF HasStock(localItem.maxStock) THEN localItem.maxStock[1]
                               ELSE MAX_QUANTITY_PER_ITEM,
                               MAX_QUANTITY_PER_ITEM)
                  IN  MergeCart([mergedCart EXCEPT ![existingIndex].quantity = maxQuantity],
                                Tail(localCart))
             ELSE MergeCart(Append(mergedCart, localItem), Tail(localCart))

\* the carts the remote authority holds: no productId twice, every line within
\* its own limit
ServerCarts ==
    { <<>>,
      <<[productId |-> "p1", name |-> "Dune", maxStock |-> <<5>>, quantity |-> 2]>>,
      <<[productId |-> "p2", name |-> "Heat", maxStock |-> <<3>>, quantity |-> 3],
        [productId |-> "p1", name |-> "Dune", maxStock |-> NoStock, quantity |-> 98]>> }

\* an HTTP request leaves; by is the identity the cache held when it was issued
Issue(kind, by) == Append(requests, [kind |-> kind, by |-> by])
Drop(i) == [j \in 1..(Len(requests) - 1) |-> IF j < i THEN requests[j] ELSE requests[j + 1]]

\* syncCartWithBackend: POST /cart/sync {items}
SyncCartWithBackend ==
    /\ Len(requests) < MaxInFlight
    /\ requests' = Issue("cartSync", cartUserId)
    /\ last' = [op |-> "syncCartWithBackend"]
    /\ UNCHANGED <<now, authVars, cartVars, favVars, storeVars, probe, bookings, atLogout>>

MergeCartOnLogin(serverCart) ==
    /\ Len(requests) < MaxInFlight
    /\ SetAndSaveCart(MergeCart(serverCart, cartItems))
    /\ requests' = Issue("cartSync", cartUserId)
    /\ last' = [op |-> "mergeCartOnLogin", by |-> cartUserId, server |-> serverCart,
                local |-> cartItems,
                guest |-> IF last.op = "handleAuthSuccess" THEN last.guestCart ELSE <<>>]
    /\ UNCHANGED <<now, authVars, favVars, probe, bookings, atLogout, cartUserId>>

\* the tap of syncCartWithBackend: {success: true, cart} replaces the cart and is
\* written through under whatever identity is active now
CartSyncSuccess(i, cart) ==
    /\ requests[i].kind = "cartSync"
    /\ SetAndSaveCart(cart)
    /\ requests' = Drop(i)
    /\ last' = [op |-> "cartSyncSuccess", by |-> requests[i].by,
                resolved |-> [success |-> TRUE, cart |-> cart]]
    /\ UNCHANGED <<now, authVars, favVars, probe, bookings, atLogout, cartUserId>>

\* CartSyncFailure with a catchError that empties the cart
CartSyncFailure_Empties(i) ==
    /\ requests[i].kind = "cartSync"
    /\ requests' = Drop(i)
    /\ SetAndSaveCart(<<>>)
    /\ last' = [op |-> "cartSyncFailure", by |-> requests[i].by,
                resolved |-> [success |-> FALSE, cart |-> <<>>]]
    /\ UNCHANGED <<now, authVars, favVars, probe, bookings, atLogout, cartUserId>>

\* an HTTP error (catchError): nothing changes and the caller receives
\* {success: false, cart: this.cartItems()}
CartSyncFailure(i) ==
    /\ requests[i].kind = "cartSync"
    /\ requests' = Drop(i)
    /\ last' = [op |-> "cartSyncFailure", by |-> requests[i].by,
                resolved |-> [success |-> FALSE, cart |-> cartItems]]
    /\ UNCHANGED <<now, authVars, cartVars, favVars, storeVars, probe, bookings, atLogout>>

\* loadCartFromBackend: GET /cart
LoadCartFromBackend ==
    /\ Len(requests) < MaxInFlight
    /\ requests' = Issue("cartLoad", cartUserId)
    /\ last' = [op |-> "loadCartFromBackend"]
    /\ UNCHANGED <<now, authVars, cartVars, favVars, storeVars, probe, bookings, atLogout>>

\* CartLoadSuccess that replaces the cart in memory only
CartLoadSuccess_NoSave(i, cart) ==
    /\ requests[i].kind = "cartLoad"
    /\ cartItems' = cart
    /\ requests' = Drop(i)
    /\ last' = [op |-> "cartLoadSuccess", by |-> requests[i].by, resolved |-> cart]
    /\ UNCHANGED <<now, authVars, favVars, storeVars, probe, bookings, atLogout, cartUserId>>

\* the tap of loadCartFromBackend: the body replaces the cart and is written
\* through under whatever identity is active now
CartLoadSuccess(i, cart) ==
    /\ requests[i].kind = "cartLoad"
    /\ SetAndSaveCart(cart)
    /\ requests' = Drop(i)
    /\ last' = [op |-> "cartLoadSuccess", by |-> requests[i].by, resolved |-> cart]
    /\ UNCHANGED <<now, authVars, favVars, probe, bookings, atLogout, cartUserId>>

\* an HTTP error (catchError): nothing changes
CartLoadFailure(i) ==
    /\ requests[i].kind = "cartLoad"
    /\ requests' = Drop(i)
    /\ last' = [op |-> "cartLoadFailure", by |-> requests[i].by, resolved |-> <<>>]
    /\ UNCHANGED <<now, authVars, cartVars, favVars, storeVars, probe, bookings, atLogout>>

(***************************************************************************)
(* FavoriteService.  addedAt is a Date [ms |-> n] in memory and the ISO    *)
(* string [iso |-> n] in a JSON text.                                      *)
(***************************************************************************)
\* new Date(x).getTime() of a Date or of an ISO string
GetTime(addedAt) == IF "ms" \in DOMAIN addedAt THEN addedAt.ms ELSE addedAt.iso
\* new Date(x)
NewDate(addedAt) == [ms |-> GetTime(addedAt)]

\* parseFavorites: every addedAt rebuilt as a Date
ParseFavorites(favorites) ==
    [i \in 1..Len(favorites) |-> [favorites[i] EXCEPT !.addedAt = NewDate(favorites[i].addedAt)]]

\* getStorageKey
FavKey(userId) == IF userId = NoUser THEN "fav_guest" ELSE STORAGE_PREFIX \o userId

SaveFavSession(ss, userId, items) ==
    IF userId = NoUser THEN ss ELSE SetSessionItem(ss, FavKey(userId), FavList(items))
SaveFavCookie(ck, userId, items) ==
    IF userId = NoUser THEN ck ELSE SetCookie(ck, FavKey(userId), FavList(items))

LoadFavoritesFromStorage(ss, ck, userId) ==
    IF userId = NoUser THEN <<>>
    ELSE LET favoritesJson == GetSessionItem(ss, FavKey(userId))
             cookieFavorites == GetCookie(ck, FavKey(userId))
         IN  IF Truthy(favoritesJson) THEN ParseFavorites(favoritesJson.favs)
             ELSE IF Truthy(cookieFavorites) THEN ParseFavorites(cookieFavorites.favs)
             ELSE <<>>

SetAndSaveFavorites(items) ==
    /\ favoriteItems' = items
    /\ sessionStorage' = SaveFavSession(sessionStorage, favUserId, items)
    /\ cookies' = SaveFavCookie(cookies, favUserId, items)

\* the products the callers pass to addToFavorites (Omit<FavoriteItem, 'addedAt'>)
FavoriteArgs ==
    { [productId |-> "p1", name |-> "Dune"], [productId |-> "p2", name |-> "Heat"] }

FavFrame == UNCHANGED <<now, authVars, requests, cartVars, probe, bookings, atLogout, favUserId>>

\* the list addToFavorites leaves
AddToFavoritesResult(items, product, date) ==
    IF \E i \in 1..Len(items) : items[i].productId = product.productId
    THEN items
    ELSE Append(items, [productId |-> product.productId, name |-> product.name,
                        addedAt |-> [ms |-> date]])

\* AddToFavorites with a second add that stamps the entry anew
AddToFavorites_Restamps(product) ==
    /\ SetAndSaveFavorites(
           Append(Filter(favoriteItems, product.productId),
                  [productId |-> product.productId, name |-> product.name,
                   addedAt |-> [ms |-> now]]))
    /\ last' = [op |-> "addToFavorites", by |-> favUserId, productId |-> product.productId,
                before |-> favoriteItems]
    /\ FavFrame

AddToFavorites(product) ==
    /\ IF \E i \in 1..Len(favoriteItems) : favoriteItems[i].productId = product.productId
       THEN UNCHANGED <<favoriteItems, storeVars>>
       ELSE SetAndSaveFavorites(AddToFavoritesResult(favoriteItems, product, now))
    /\ last' = [op |-> "addToFavorites", by |-> favUserId, productId |-> product.productId,
                before |-> favoriteItems]
    /\ FavFrame

RemoveFromFavorites(productId) ==
    /\ SetAndSaveFavorites(Filter(favoriteItems, productId))
    /\ last' = [op |-> "removeFromFavorites", by |-> favUserId]
    /\ FavFrame

\* clearFavorites: the list is emptied and, when a user is active, the user's
\* entry is removed from both tiers
ClearFavorites ==
    /\ favoriteItems' = <<>>
    /\ IF favUserId # NoUser
       THEN /\ sessionStorage' = RemoveSessionItem(sessionStorage, FavKey(favUserId))
            /\ cookies' = DeleteCookie(cookies, FavKey(favUserId))
       ELSE UNCHANGED storeVars
    /\ last' = [op |-> "clearFavorites", by |-> favUserId]
    /\ FavFrame

\* Map.prototype.set: an existing key keeps its place, a new key goes last
MapSet(m, item) ==
    LET i == FindIndex(m, item.productId)
    IN  IF i > 0 THEN [m EXCEPT ![i] = item] ELSE Append(m, item)

RECURSIVE SeedMap(_, _)
\* serverFavorites.forEach(item => mergedMap.set(item.productId, item))
SeedMap(m, serverFavorites) ==
    IF serverFavorites = <<>> THEN m
    ELSE SeedMap(MapSet(m, Head(serverFavorites)), Tail(serverFavorites))

RECURSIVE MergeFavorites_LaterWins(_, _)
\* MergeFavorites with the comparison of the dates turned around
MergeFavorites_LaterWins(mergedMap, localFavorites) ==
    IF localFavorites = <<>> THEN mergedMap
    ELSE LET localItem == Head(localFavorites)
             i == FindIndex(mergedMap, localItem.productId)
         IN  IF i > 0
             THEN IF GetTime(localItem.addedAt) > GetTime(mergedMap[i].addedAt)
                  THEN MergeFavorites_LaterWins(MapSet(mergedMap, localItem),
                                                Tail(localFavorites))
                  ELSE MergeFavorites_LaterWins(mergedMap, Tail(localFavorites))
             ELSE MergeFavorites_LaterWins(MapSet(mergedMap, localItem),
                                           Tail(localFavorites))

RECURSIVE MergeFavorites(_, _)
\* the local favorites folded into the map: a local copy replaces an existing
\* one only when its addedAt is strictly earlier
MergeFavorites(mergedMap, localFavorites) ==
    IF localFavorites = <<>> THEN mergedMap
    ELSE LET localItem == Head(localFavorites)
             i == FindIndex(mergedMap, localItem.productId)
         IN  IF i > 0
             THEN IF GetTime(localItem.addedAt) < GetTime(mergedMap[i].addedAt)
                  THEN MergeFavorites(MapSet(mergedMap, localItem), Tail(localFavorites))
                  ELSE MergeFavorites(mergedMap, Tail(localFavorites))
             ELSE MergeFavorites(MapSet(mergedMap, localItem), Tail(localFavorites))

\* the favorites the remote authority holds, as they arrive in a JSON body:
\* no productId twice
ServerFavorites ==
    { <<>>,
      <<[productId |-> "p1", name |-> "Dune (server)", addedAt |-> [iso |-> 2]]>>,
      <<[productId |-> "p2", name |-> "Heat (server)", addedAt |-> [iso |-> 1]],
        [productId |-> "p1", name |-> "Dune (server)", addedAt |-> [iso |-> 0]]>> }

SyncFavoritesWithBackend ==
    /\ Len(requests) < MaxInFlight
    /\ requests' = Issue("favSync", favUserId)
    /\ last' = [op |-> "syncFavoritesWithBackend"]
    /\ UNCHANGED <<now, authVars, cartVars, favVars, storeVars, probe, bookings, atLogout>>

MergeFavoritesOnLogin(serverFavorites) ==
    /\ Len(requests) < MaxInFlight
    /\ SetAndSaveFavorites(MergeFavorites(SeedMap(<<>>, serverFavorites), favoriteItems))
    /\ requests' = Issue("favSync", favUserId)
    /\ last' = [op |-> "mergeFavoritesOnLogin", by |-> favUserId, server |-> serverFavorites,
                local |-> favoriteItems,
                guest |-> IF last.op = "handleAuthSuccess" THEN last.guestFavorites ELSE <<>>]
    /\ UNCHANGED <<now, authVars, cartVars, probe, bookings, atLogout, favUserId>>

FavSyncSuccess(i, favorites) ==
    /\ requests[i].kind = "favSync"
    /\ SetAndSaveFavorites(ParseFavorites(favorites))
    /\ requests' = Drop(i)
    /\ last' = [op |-> "favSyncSuccess", by |-> requests[i].by,
                resolved |-> [success |-> TRUE, favorites |-> favorites]]
    /\ UNCHANGED <<now, authVars, cartVars, probe, bookings, atLogout, favUserId>>

FavSyncFailure(i) ==
    /\ requests[i].kind = "favSync"
    /\ requests' = Drop(i)
    /\ last' = [op |-> "favSyncFailure", by |-> requests[i].by,
                resolved |-> [success |-> FALSE, favorites |-> favoriteItems]]
    /\ UNCHANGED <<now, authVars, cartVars, favVars, storeVars, probe, bookings, atLogout>>

\* loadFavoritesFromBackend: GET /favorite
LoadFavoritesFromBackend ==
    /\ Len(requests) < MaxInFlight
    /\ requests' = Issue("favLoad", favUserId)
    /\ last' = [op |-> "loadFavoritesFromBackend"]
    /\ UNCHANGED <<now, authVars, cartVars, favVars, storeVars, probe, bookings, atLogout>>

FavLoadSuccess(i, favorites) ==
    /\ requests[i].kind = "favLoad"
    /\ SetAndSaveFavorites(ParseFavorites(favorites))
    /\ requests' = Drop(i)
    /\ last' = [op |-> "favLoadSuccess", by |-> requests[i].by, resolved |-> favorites]
    /\ UNCHANGED <<now, authVars, cartVars, probe, bookings, atLogout, favUserId>>

FavLoadFailure(i) ==
    /\ requests[i].kind = "favLoad"
    /\ requests' = Drop(i)
    /\ last' = [op |-> "favLoadFailure", by |-> requests[i].by, resolved |-> <<>>]
    /\ UNCHANGED <<now, authVars, cartVars, favVars, storeVars, probe, bookings, atLogout>>

\* time passes
Tick ==
    /\ now < MaxTime
    /\ now' = now + 1
    /\ last' = [op |-> "tick"]
    /\ UNCHANGED <<authVars, requests, cartVars, favVars, storeVars, probe, bookings, atLogout>>

(***************************************************************************)
(* AuthService.                                                            *)
(***************************************************************************)
\* the users the remote authority knows
UserRecords == { [id |-> "u1", name |-> "Ann"], [id |-> "u2", name |-> "Bob"] }
Ann == [id |-> "u1", name |-> "Ann"]
Bob == [id |-> "u2", name |-> "Bob"]
\* the answers of the remote authority to a login: the bearer token is opaque or
\* made of digits; expiresIn is 0 when the field is missing
AuthResponses ==
    { [user |-> Ann, token |-> Chars(<<"t", "k">>), expiresIn |-> 0],
      [user |-> Ann, token |-> Chars(<<"4", "2">>), expiresIn |-> 1],
      [user |-> Bob, token |-> Chars(<<"t", "k">>), expiresIn |-> 2] }

\* res.expiresIn || DEFAULT_TOKEN_EXPIRY, added to the current time
ExpiryDate(res, t) == t + (IF res.expiresIn # 0 THEN res.expiresIn ELSE DEFAULT_TOKEN_EXPIRY)

\* handleAuthSuccess: the three setSessionItem calls
AuthSessionWrites(ss, res, t) ==
    SetSessionItem(
        SetSessionItem(
            SetSessionItem(ss, STORAGE_KEY, Str(JSONStringify(UserObj(res.user)))),
            TOKEN_KEY, Str(res.token)),
        TOKEN_EXPIRY_KEY, Str(Digits(ExpiryDate(res, t))))

\* handleAuthSuccess: the three setCookie calls
AuthCookieWrites(ck, res, t) ==
    SetCookie(
        SetCookie(
            SetCookie(ck, "auth_user", UserObj(res.user)),
            "auth_token", Str(res.token)),
        "auth_token_expiry", Str(Digits(ExpiryDate(res, t))))

\* logout: the three removeSessionItem calls
ClearAuthSession(ss) ==
    RemoveSessionItem(RemoveSessionItem(RemoveSessionItem(ss, STORAGE_KEY), TOKEN_KEY),
                      TOKEN_EXPIRY_KEY)

\* logout: the three deleteCookie calls
ClearAuthCookies(ck) ==
    DeleteCookie(DeleteCookie(DeleteCookie(ck, "auth_user"), "auth_token"),
                 "auth_token_expiry")

\* what the caches held for a user when they last logged out: <<>> is nothing,
\* <<items>> a collection
NoSnapshot == [cart |-> <<>>, favorites |-> <<>>]
NoSnapshots == [u \in Users |-> NoSnapshot]

Registered(service) == \E i \in 1..Len(callbacks) : callbacks[i] = service

\* a callback some other client registered, which throws whenever it is called
FaultyCallback == "faulty"

RECURSIVE ForEachCallback_NoCatch(_, _)
\* ForEachCallback without the try/catch: a throw ends the loop
ForEachCallback_NoCatch(cbs, arg) ==
    IF cbs = <<>> THEN <<>>
    ELSE LET threw == Head(cbs) = FaultyCallback
             call == [cb |-> Head(cbs), arg |-> arg, threw |-> threw]
         IN  IF threw THEN <<call>>
             ELSE <<call>> \o ForEachCallback_NoCatch(Tail(cbs), arg)

RECURSIVE ForEachCallback(_, _)
\* callbacks.forEach(callback => { try { callback(arg) } catch { log } }):
\* the calls made, in order
ForEachCallback(cbs, arg) ==
    IF cbs = <<>> THEN <<>>
    ELSE LET threw == Head(cbs) = FaultyCallback
             call == [cb |-> Head(cbs), arg |-> arg, threw |-> threw]
         IN  <<call>> \o ForEachCallback(Tail(cbs), arg)

\* the callback of a service is among the calls made
Called(service, calls) == \E i \in 1..Len(calls) : calls[i].cb = service

\* NotifyLogin with callbacks that are handed no user id
NotifyLogin_NoId(userId, ss, ck) ==
    /\ IF Called("cart", ForEachCallback(callbacks, userId))
       THEN cartUserId' = NoUser /\ cartItems' = <<>>
       ELSE UNCHANGED cartVars
    /\ IF Called("favorites", ForEachCallback(callbacks, userId))
       THEN favUserId' = NoUser /\ favoriteItems' = <<>>
       ELSE UNCHANGED favVars

\* notifyLogin(userId): the login callbacks of the registered caches, which load
\* the user's collections from the tiers ss and ck
NotifyLogin(userId, ss, ck) ==
    /\ IF Called("cart", ForEachCallback(callbacks, userId))
       THEN /\ cartUserId' = userId
            /\ cartItems' = LoadCartFromStorage(ss, ck, userId)
       ELSE UNCHANGED cartVars
    /\ IF Called("favorites", ForEachCallback(callbacks, userId))
       THEN /\ favUserId' = userId
            /\ favoriteItems' = LoadFavoritesFromStorage(ss, ck, userId)
       ELSE UNCHANGED favVars

\* NotifyLogout with a cart callback that forgets the user and keeps the items
NotifyLogout_KeepsItems ==
    /\ IF Registered("cart")
       THEN cartItems' = cartItems /\ cartUserId' = NoUser
       ELSE UNCHANGED cartVars
    /\ IF Registered("favorites")
       THEN favoriteItems' = <<>> /\ favUserId' = NoUser
       ELSE UNCHANGED favVars
    /\ bookings' = IF Registered("bookings") THEN <<>> ELSE bookings
    /\ atLogout' = [u \in Users |->
                        [cart |-> IF u = cartUserId THEN <<cartItems>>
                                  ELSE atLogout[u].cart,
                         favorites |-> IF u = favUserId THEN <<favoriteItems>>
                                       ELSE atLogout[u].favorites]]

\* notifyLogout(): the logout callbacks of the registered caches
NotifyLogout ==
    /\ IF Called("cart", ForEachCallback(callbacks, NoUser))
       THEN cartItems' = <<>> /\ cartUserId' = NoUser
       ELSE UNCHANGED cartVars
    /\ IF Called("favorites", ForEachCallback(callbacks, NoUser))
       THEN favoriteItems' = <<>> /\ favUserId' = NoUser
       ELSE UNCHANGED favVars
    /\ bookings' = IF Registered("bookings") THEN <<>> ELSE bookings
    /\ atLogout' = [u \in Users |->
                        [cart |-> IF u = cartUserId THEN <<cartItems>>
                                  ELSE atLogout[u].cart,
                         favorites |-> IF u = favUserId THEN <<favoriteItems>>
                                       ELSE atLogout[u].favorites]]

\* the login callback of the BookingService, when registered, subscribes to
\* getMyBookings(): GET /bookings/my-bookings leaves
NotifyBookings(reqs, userId) ==
    IF Called("bookings", ForEachCallback(callbacks, userId))
    THEN Append(reqs, [kind |-> "myBookings", by |-> userId])
    ELSE reqs

\* the body of handleAuthSuccess(res)
HandleAuthSuccessBody(res) ==
    /\ currentUser' = UserObj(res.user)
    /\ isAuthenticated' = TRUE
    /\ sessionStorage' = AuthSessionWrites(sessionStorage, res, now)
    /\ cookies' = AuthCookieWrites(cookies, res, now)
    /\ NotifyLogin(res.user.id, sessionStorage', cookies')
    /\ atLogout' = [atLogout EXCEPT ![res.user.id] = NoSnapshot]
    /\ last' = [op |-> "handleAuthSuccess", user |-> res.user.id,
                after |-> atLogout[res.user.id],
                calls |-> ForEachCallback(callbacks, res.user.id),
                guestCart |-> IF cartUserId = NoUser THEN cartItems ELSE <<>>,
                guestFavorites |-> IF favUserId = NoUser THEN favoriteItems ELSE <<>>]
    /\ issuedToken' = <<res.token>>
    /\ UNCHANGED <<now, authOutcome, callbacks, timers, probe, bookings>>

\* handleAuthSuccess(res), run by the tap of login, register and the Google login
HandleAuthSuccess(res) ==
    /\ HandleAuthSuccessBody(res)
    /\ Len(NotifyBookings(requests, res.user.id)) <= MaxInFlight
    /\ requests' = NotifyBookings(requests, res.user.id)

\* the requests that log a user in: login, register, loginWithGoogleBackend and
\* the one handleGoogleToken sends
AuthKinds == {"login", "register", "loginWithGoogleBackend", "handleGoogleToken"}

\* one of them is sent to the remote authority
IssueAuth(kind) ==
    /\ Len(requests) < MaxInFlight
    /\ requests' = Issue(kind, IF isAuthenticated THEN currentUser.user.id ELSE NoUser)
    /\ last' = [op |-> "issueAuth"]
    /\ UNCHANGED <<now, authVars, cartVars, favVars, storeVars, probe, bookings, atLogout>>

\* the authority accepts: the tap runs handleAuthSuccess
AuthAccepted(i, res) ==
    /\ requests[i].kind \in AuthKinds
    /\ HandleAuthSuccessBody(res)
    /\ requests' = NotifyBookings(Drop(i), res.user.id)

\* what the subscriber of a rejected request receives from catchError: the
\* error rethrown, or a null value in place of it
RejectionOutcome(kind) ==
    IF kind = "handleGoogleToken" THEN "null" ELSE "error"

\* the authority rejects: the tap does not run, catchError does
AuthRejected(i) ==
    /\ requests[i].kind \in AuthKinds
    /\ requests' = Drop(i)
    /\ last' = [op |-> "authRejected", kind |-> requests[i].kind, by |-> requests[i].by,
                outcome |-> RejectionOutcome(requests[i].kind),
                calls |-> <<>>,
                session |-> sessionStorage, cookie |-> cookies,
                authenticated |-> isAuthenticated, userBefore |-> currentUser]
    /\ UNCHANGED <<now, authVars, cartVars, favVars, storeVars, probe, bookings, atLogout>>

\* which credential keys each tier holds
AuthPresent(ss, ck) ==
    [session |-> {k \in AuthKeys : Has(ss, k)}, cookie |-> {k \in AuthKeys : Has(ck, k)}]

\* LogoutProgram with the tiers cleared before the callbacks run
LogoutProgram_ClearFirst == <<"removeSessionItems", "deleteCookies", "notifyLogout">>

\* the statements of logout() that touch the callbacks and the tiers, in order
LogoutProgram == <<"notifyLogout", "removeSessionItems", "deleteCookies">>

RECURSIVE RunLogout(_, _, _, _)
\* the statements run in order over the tiers: the tiers they leave, and the
\* credential keys the logout callbacks found when they ran
RunLogout(program, ss, ck, seen) ==
    IF program = <<>> THEN [ss |-> ss, ck |-> ck, seen |-> seen]
    ELSE CASE Head(program) = "notifyLogout" ->
                  RunLogout(Tail(program), ss, ck, <<AuthPresent(ss, ck)>>)
           [] Head(program) = "removeSessionItems" ->
                  RunLogout(Tail(program), ClearAuthSession(ss), ck, seen)
           [] Head(program) = "deleteCookies" ->
                  RunLogout(Tail(program), ss, ClearAuthCookies(ck), seen)

\* the body of logout()
LogoutBody ==
    /\ currentUser' = Null
    /\ isAuthenticated' = FALSE
    /\ NotifyLogout
    /\ \E r \in {RunLogout(LogoutProgram, sessionStorage, cookies, <<>>)} :
          /\ sessionStorage' = r.ss
          /\ cookies' = r.ck
          /\ last' = [op |-> "logout", cartUser |-> cartUserId, favUser |-> favUserId,
                      calls |-> ForEachCallback(callbacks, NoUser),
                      authenticated |-> isAuthenticated,
                      before |-> AuthPresent(sessionStorage, cookies),
                      seen |-> r.seen]
    /\ issuedToken' = <<>>
    /\ UNCHANGED <<now, authOutcome, callbacks, timers, probe>>

\* logout(), called by a component
Logout ==
    /\ LogoutBody
    /\ UNCHANGED requests

\* the requests of a session in progress: refreshToken, verifySession and
\* updateUserProfile
SessionKinds == {"refreshToken", "verifySession", "updateUserProfile"}

\* the remote authority answers a request of a session with success only when
\* a logged-in user sent it
SentByUser(i) == requests[i].by # NoUser

\* the tap of refreshToken runs handleAuthSuccess
RefreshAccepted(i, res) ==
    /\ requests[i].kind = "refreshToken"
    /\ SentByUser(i)
    /\ res.user.id = requests[i].by
    /\ HandleAuthSuccessBody(res)
    /\ requests' = NotifyBookings(Drop(i), res.user.id)

\* the catchError of refreshToken logs out and rethrows
RefreshRejected(i) ==
    /\ requests[i].kind = "refreshToken"
    /\ LogoutBody
    /\ requests' = Drop(i)

\* verifySession: {valid: true} changes nothing; {valid: false} and an HTTP
\* error log out
VerifyCompleted(i, valid) ==
    /\ requests[i].kind = "verifySession"
    /\ valid => SentByUser(i)
    /\ requests' = Drop(i)
    /\ IF valid
       THEN /\ last' = [op |-> "verifySession", by |-> requests[i].by]
            /\ UNCHANGED <<now, authVars, cartVars, favVars, storeVars, probe, bookings, atLogout>>
       ELSE LogoutBody

\* the users updateUserProfile receives back from PATCH /users/me
ProfileResponses == { [id |-> "u1", name |-> "Anna"], [id |-> "u2", name |-> "Bob"] }

\* the tap of updateUserProfile: the user is set and written to both tiers
ProfileUpdated(i, user) ==
    /\ requests[i].kind = "updateUserProfile"
    /\ SentByUser(i)
    /\ user.id = requests[i].by
    /\ currentUser' = UserObj(user)
    /\ sessionStorage' = SetSessionItem(sessionStorage, STORAGE_KEY,
                                        Str(JSONStringify(UserObj(user))))
    /\ cookies' = SetCookie(cookies, "auth_user", UserObj(user))
    /\ requests' = Drop(i)
    /\ last' = [op |-> "profileUpdated", by |-> requests[i].by]
    /\ UNCHANGED <<now, isAuthenticated, authOutcome, issuedToken, callbacks, timers,
                   cartVars, favVars, probe, bookings, atLogout>>

\* the catchError of updateUserProfile rethrows
ProfileFailed(i) ==
    /\ requests[i].kind = "updateUserProfile"
    /\ requests' = Drop(i)
    /\ last' = [op |-> "profileFailed", by |-> requests[i].by]
    /\ UNCHANGED <<now, authVars, cartVars, favVars, storeVars, probe, bookings, atLogout>>

\* the three fields of the credential record as a tier returns them
SessionRecord(ss) ==
    [user |-> GetSessionItem(ss, STORAGE_KEY), token |-> GetSessionItem(ss, TOKEN_KEY),
     expiry |-> GetSessionItem(ss, TOKEN_EXPIRY_KEY)]
CookieRecord(ck) ==
    [user |-> GetCookie(ck, "auth_user"), token |-> GetCookie(ck, "auth_token"),
     expiry |-> GetCookie(ck, "auth_token_expiry")]
Complete(rec) == Truthy(rec.user) /\ Truthy(rec.token) /\ Truthy(rec.expiry)

\* ReseedSession with the token and the expiry under each other's key
ReseedSession_SwappedKeys(ss, c) ==
    SetSessionItem(SetSessionItem(SetSessionItem(ss, STORAGE_KEY, c.user),
                                  TOKEN_KEY, c.expiry),
                   TOKEN_EXPIRY_KEY, c.token)

\* the cookie record restored to sessionStorage: the three setSessionItem calls
ReseedSession(ss, c) ==
    SetSessionItem(SetSessionItem(SetSessionItem(ss, STORAGE_KEY, c.user),
                                  TOKEN_KEY, c.token),
                   TOKEN_EXPIRY_KEY, c.expiry)

\* loadUserFromStorage at time t over the tiers ss and ck: how it ends, the user
\* it sets, the tiers it leaves and the notifyLogin it defers
LoadUserFromStorage(ss, ck, t) ==
    LET s == SessionRecord(ss)
        c == CookieRecord(ck)
        loggedOut == [outcome |-> "expired", user |-> Null, ss |-> ClearAuthSession(ss),
                      ck |-> ClearAuthCookies(ck), notify |-> <<>>]
    IN  IF ~Complete(s)
        THEN IF Complete(c)
             THEN IF NotExpired(t, ParseInt(c.expiry))
                  THEN [outcome |-> "authenticated", user |-> c.user,
                        ss |-> ReseedSession(ss, c),
                        ck |-> ck,
                        notify |-> <<c.user.user.id>>]
                  ELSE loggedOut
             ELSE [outcome |-> "anonymous", user |-> Null, ss |-> ss, ck |-> ck,
                   notify |-> <<>>]
        ELSE IF NotExpired(t, ParseInt(s.expiry))
             THEN LET parsed == JSONParse(ToStringJS(s.user))
                  IN  IF parsed.ok
                      THEN [outcome |-> "authenticated", user |-> parsed.v, ss |-> ss,
                            ck |-> ck, notify |-> <<parsed.v.user.id>>]
                      ELSE [outcome |-> "threw", user |-> Null, ss |-> ss, ck |-> ck,
                            notify |-> <<>>]
             ELSE loggedOut

\* the page is loaded: every service starts from its field initializers, no
\* cache has registered yet, and the AuthService constructor restores the user
StartApp(ss) ==
    \E r \in {LoadUserFromStorage(ss, cookies, now)} :
        /\ currentUser' = r.user
        /\ isAuthenticated' = (r.outcome = "authenticated")
        /\ authOutcome' = r.outcome
        /\ issuedToken' = IF r.outcome = "expired" THEN <<>> ELSE issuedToken
        /\ sessionStorage' = r.ss
        /\ cookies' = r.ck
        /\ timers' = r.notify
        /\ callbacks' = <<>>
        /\ requests' = <<>>
        /\ cartItems' = <<>>
        /\ cartUserId' = NoUser
        /\ favoriteItems' = <<>>
        /\ favUserId' = NoUser
        /\ atLogout' = NoSnapshots
        /\ bookings' = <<>>
        /\ UNCHANGED <<now, probe>>

\* a reload in the same tab keeps sessionStorage
Reload ==
    /\ StartApp(sessionStorage)
    /\ last' = [op |-> "reload", session |-> SessionRecord(sessionStorage),
                cookie |-> CookieRecord(cookies)]

\* a new tab or a browser restart starts with an empty sessionStorage
Restart ==
    /\ StartApp(EmptyStore)
    /\ last' = [op |-> "restart", session |-> SessionRecord(EmptyStore),
                cookie |-> CookieRecord(cookies)]

\* a cache is constructed and registers its login and logout callbacks
Construct(service) ==
    /\ ~Registered(service)
    /\ callbacks' = Append(callbacks, service)
    /\ last' = [op |-> "construct"]
    /\ UNCHANGED <<now, currentUser, isAuthenticated, authOutcome, issuedToken, timers, requests,
                   cartVars, favVars, storeVars, probe, bookings, atLogout>>

\* the deferred notifyLogin of a restoration runs
TimerFires ==
    /\ timers # <<>>
    /\ NotifyLogin(Head(timers), sessionStorage, cookies)
    /\ timers' = Tail(timers)
    /\ last' = [op |-> "notifyLogin", user |-> Head(timers),
                calls |-> ForEachCallback(callbacks, Head(timers)),
                authenticated |-> isAuthenticated]
    /\ Len(NotifyBookings(requests, Head(timers))) <= MaxInFlight
    /\ requests' = NotifyBookings(requests, Head(timers))
    /\ UNCHANGED <<now, currentUser, isAuthenticated, authOutcome, issuedToken, callbacks,
                   storeVars, probe, bookings, atLogout>>

\* isTokenExpired over the tiers ss and ck at time t: true without a stored
\* expiry, else Date.now() >= expiryTime (false when expiryTime is NaN)
IsTokenExpiredResult(ss, ck, t) ==
    LET expiry == IF Truthy(GetSessionItem(ss, TOKEN_EXPIRY_KEY))
                  THEN GetSessionItem(ss, TOKEN_EXPIRY_KEY)
                  ELSE GetCookie(ck, "auth_token_expiry")
    IN  IF ~Truthy(expiry) THEN TRUE
        ELSE ~ParseInt(expiry).nan /\ t >= ParseInt(expiry).n

\* a caller asks isTokenExpired()
IsTokenExpired ==
    /\ last' = [op |-> "isTokenExpired",
                result |-> IsTokenExpiredResult(sessionStorage, cookies, now),
                authenticated |-> isAuthenticated,
                calls |-> <<>>]
    /\ UNCHANGED <<now, authVars, requests, cartVars, favVars, storeVars, probe, bookings, atLogout>>

\* both caches have been constructed: they are injected by the components of
\* the first page, in the turn that constructs the AuthService
CachesRegistered == Registered("cart") /\ Registered("favorites")

\* the deferred notifyLogin of a restoration runs in a later turn, the caches
\* having registered
DeferredNotifyLogin == CachesRegistered /\ TimerFires

(***************************************************************************)
(* BookingService.                                                         *)
(***************************************************************************)
\* the bookings the remote authority holds for a user
BookingsOf(userId) == <<[id |-> "b_" \o userId, user |-> userId]>>

\* getMyBookings(), subscribed by a component
GetMyBookings ==
    /\ Len(requests) < MaxInFlight
    /\ requests' = Issue("myBookings",
                         IF isAuthenticated THEN currentUser.user.id ELSE NoUser)
    /\ last' = [op |-> "getMyBookings"]
    /\ UNCHANGED <<now, authVars, cartVars, favVars, storeVars, probe, bookings, atLogout>>

\* the tap of getMyBookings: a response with status 'success' replaces the
\* list, any other status leaves it; the authority answers with the bookings
\* of the user who sent the request
BookingsResponse(i, status) ==
    /\ requests[i].kind = "myBookings"
    /\ status = "success" => SentByUser(i)
    /\ bookings' = IF status = "success" THEN BookingsOf(requests[i].by) ELSE bookings
    /\ requests' = Drop(i)
    /\ last' = [op |-> "bookingsResponse", by |-> requests[i].by, status |-> status]
    /\ UNCHANGED <<now, authVars, cartVars, favVars, storeVars, probe, atLogout>>

\* the request fails: the error reaches the subscriber, the tap does not run
BookingsFailed(i) ==
    /\ requests[i].kind = "myBookings"
    /\ requests' = Drop(i)
    /\ last' = [op |-> "bookingsFailed", by |-> requests[i].by]
    /\ UNCHANGED <<now, authVars, cartVars, favVars, storeVars, probe, bookings, atLogout>>

(***************************************************************************)
(* authInterceptor.                                                        *)
(***************************************************************************)
\* s.split('=')[0] of the text after the name of the cookie: what precedes the
\* first '=' of the stored value
BeforeEquals(text) ==
    IF \E i \in 1..Len(text) : text[i] = Ch("=")
    THEN SubSeq(text, 1, (CHOOSE i \in 1..Len(text) :
                             text[i] = Ch("=") /\ \A j \in 1..(i - 1) : text[j] # Ch("=")) - 1)
    ELSE text

\* the token the interceptor finds: sessionStorage.getItem('auth_token'), else
\* the text of the auth_token cookie; <<>> when there is none
InterceptorToken(ss, ck) ==
    IF Has(ss, TOKEN_KEY) /\ ss[TOKEN_KEY].text # <<>> THEN <<ss[TOKEN_KEY].text>>
    ELSE IF Has(ck, TOKEN_KEY) /\ BeforeEquals(ck[TOKEN_KEY].text) # <<>>
         THEN <<BeforeEquals(ck[TOKEN_KEY].text)>>
         ELSE <<>>

\* the text 'Bearer ' before a token
Bearer(token) == Chars(<<"B", "e", "a", "r", "e", "r", " ">>) \o token

\* a request passes the interceptor: the Authorization header it leaves with,
\* <<>> when it is forwarded as it came
Intercept ==
    /\ last' = [op |-> "intercept",
                header |-> IF InterceptorToken(sessionStorage, cookies) # <<>>
                           THEN <<Bearer(InterceptorToken(sessionStorage, cookies)[1])>>
                           ELSE <<>>]
    /\ UNCHANGED <<now, authVars, requests, cartVars, favVars, storeVars, probe, bookings, atLogout>>

(***************************************************************************)
(* The cart of a logged-in user under its quantity operations.             *)
(***************************************************************************)
InitCommon ==
    /\ now = 0
    /\ sessionStorage = EmptyStore
    /\ cookies = EmptyStore
    /\ currentUser = Null
    /\ isAuthenticated = FALSE
    /\ authOutcome = "anonymous"
    /\ issuedToken = <<>>
    /\ callbacks = <<>>
    /\ timers = <<>>
    /\ requests = <<>>
    /\ cartItems = <<>>
    /\ cartUserId = NoUser
    /\ favoriteItems = <<>>
    /\ favUserId = NoUser
    /\ probe = [k \in ProbeKeys |-> NoItem]
    /\ bookings = <<>>
    /\ atLogout = NoSnapshots
    /\ last = [op |-> "init"]

\* the caches are constructed, and either nobody is logged in or user u1 has
\* just logged in
FirstLogin == [user |-> [id |-> "u1", name |-> "Ann"], token |-> Chars(<<"t", "k">>),
               expiresIn |-> 0]
InitCaches ==
    /\ now = 0
    /\ \E loggedIn \in BOOLEAN :
          /\ sessionStorage =
                 IF loggedIn THEN AuthSessionWrites(EmptyStore, FirstLogin, 0) ELSE EmptyStore
          /\ cookies =
                 IF loggedIn THEN AuthCookieWrites(EmptyStore, FirstLogin, 0) ELSE EmptyStore
          /\ currentUser = IF loggedIn THEN UserObj(FirstLogin.user) ELSE Null
          /\ isAuthenticated = loggedIn
          /\ issuedToken = IF loggedIn THEN <<FirstLogin.token>> ELSE <<>>
          /\ cartUserId = IF loggedIn THEN FirstLogin.user.id ELSE NoUser
          /\ favUserId = IF loggedIn THEN FirstLogin.user.id ELSE NoUser
    /\ authOutcome = "anonymous"
    /\ callbacks = <<"cart", "favorites">>
    /\ timers = <<>>
    /\ requests = <<>>
    /\ cartItems = <<>>
    /\ favoriteItems = <<>>
    /\ probe = [k \in ProbeKeys |-> NoItem]
    /\ bookings = <<>>
    /\ atLogout = NoSnapshots
    /\ last = [op |-> "init"]

NextCartOps ==
    \/ \E p \in ProductArgs, q \in QuantityArgs : AddToCart(p, q)
    \/ \E id \in ProductIds, q \in QuantityArgs : UpdateQuantity(id, q)
    \/ \E id \in ProductIds : IncrementQuantity(id)
    \/ \E id \in ProductIds : DecrementQuantity(id)
    \/ \E id \in ProductIds : RemoveFromCart(id)

SpecCartOps == InitCaches /\ [][NextCartOps]_vars

\* the stock limit of a cart line: min(maxStock when it has one, 99)
LineLimit(item) ==
    IF item.maxStock # NoStock /\ item.maxStock[1] < MAX_QUANTITY_PER_ITEM
    THEN item.maxStock[1] ELSE MAX_QUANTITY_PER_ITEM

\* C1: under addToCart, updateQuantity, incrementQuantity, decrementQuantity and
\* removeFromCart every cart line's quantity is at most min(maxStock, 99).
C1_QuantityWithinLimit ==
    \A i \in 1..Len(cartItems) : cartItems[i].quantity <= LineLimit(cartItems[i])

\* C2: no cart line has a quantity of zero or less.
C2_QuantityPositive ==
    \A i \in 1..Len(cartItems) : cartItems[i].quantity > 0

(***************************************************************************)
(* The cart under its mutations and the merge at login.                    *)
(***************************************************************************)
NextCartMerge ==
    \/ \E p \in ProductArgs, q \in MergeQuantityArgs : AddToCart(p, q)
    \/ \E id \in ProductIds, q \in MergeQuantityArgs : UpdateQuantity(id, q)
    \/ \E id \in ProductIds : RemoveFromCart(id)
    \/ \E c \in ServerCarts : MergeCartOnLogin(c)
    \/ \E i \in 1..Len(requests), c \in ServerCarts : CartSyncSuccess(i, c)
    \/ \E i \in 1..Len(requests) : CartSyncFailure(i)

SpecCartMerge == InitCaches /\ [][NextCartMerge]_vars

WithinLimits(items) == \A i \in 1..Len(items) : items[i].quantity <= LineLimit(items[i])

\* C3: mergeCartOnLogin, given a server cart and a local cart whose lines are
\* within their stock limits, leaves no line above its stock limit (server
\* {p1: 2, maxStock 5} and local {p1: 4} give 5).
C3_MergeWithinStock ==
    (last.op = "mergeCartOnLogin" /\ WithinLimits(last.local) /\ WithinLimits(last.server))
        => WithinLimits(cartItems)

NoDuplicates(items) ==
    \A i, j \in 1..Len(items) : items[i].productId = items[j].productId => i = j

\* C10: no two lines of the in-memory cart share a productId, and an addToCart
\* of a product already in the cart adds no line.
C10_UniqueProductIds ==
    /\ NoDuplicates(cartItems)
    /\ (last.op = "addToCart" /\ last.existed) => Len(cartItems) = last.lenBefore

\* an addToCart accumulated on an existing line, and a merge met a local line
C10_Witness ==
    \/ /\ last.op = "addToCart" /\ last.ok /\ last.existed
       /\ Len(cartItems) = 2
    \/ /\ last.op = "mergeCartOnLogin"
       /\ \E i \in 1..Len(last.local), j \in 1..Len(last.server) :
              last.local[i].productId = last.server[j].productId
       /\ Len(cartItems) = 2

(***************************************************************************)
(* The favorites under their mutations and the merge at login.             *)
(***************************************************************************)
NextFavorites ==
    \/ \E p \in FavoriteArgs : AddToFavorites(p)
    \/ \E p \in FavoriteArgs : RemoveFromFavorites(p.productId)
    \/ \E f \in ServerFavorites : MergeFavoritesOnLogin(f)
    \/ \E i \in 1..Len(requests), f \in ServerFavorites : FavSyncSuccess(i, f)
    \/ \E i \in 1..Len(requests) : FavSyncFailure(i)
    \/ Tick

SpecFavorites == InitCaches /\ [][NextFavorites]_vars

IdsOf(items) == {items[i].productId : i \in 1..Len(items)}
ItemOf(items, productId) == items[FindIndex(items, productId)]

\* C9: mergeFavoritesOnLogin(server) leaves the union by productId of the server
\* list and the local list, one entry per productId; for a productId in both the
\* copy with the earlier addedAt is kept.
C9_FavoritesMerge ==
    last.op = "mergeFavoritesOnLogin" =>
        /\ IdsOf(favoriteItems) = IdsOf(last.server) \cup IdsOf(last.local)
        /\ NoDuplicates(favoriteItems)
        /\ \A id \in IdsOf(favoriteItems) :
              LET kept == ItemOf(favoriteItems, id)
              IN  CASE id \notin IdsOf(last.local) -> kept = ItemOf(last.server, id)
                    [] id \notin IdsOf(last.server) -> kept = ItemOf(last.local, id)
                    [] OTHER ->
                        LET l == ItemOf(last.local, id)
                            sv == ItemOf(last.server, id)
                        IN  /\ kept \in {l, sv}
                            /\ GetTime(kept.addedAt) <= GetTime(l.addedAt)
                            /\ GetTime(kept.addedAt) <= GetTime(sv.addedAt)

\* a merge met a productId of both lists with different addedAt, and one only local
C9_Witness ==
    /\ last.op = "mergeFavoritesOnLogin"
    /\ \E id \in IdsOf(last.local) \cap IdsOf(last.server) :
          GetTime(ItemOf(last.local, id).addedAt) < GetTime(ItemOf(last.server, id).addedAt)
    /\ IdsOf(last.local) \ IdsOf(last.server) # {}

(***************************************************************************)
(* The session authority: logins, logouts, page loads and the clock.       *)
(***************************************************************************)
NextAuth ==
    \/ \E res \in AuthResponses : HandleAuthSuccess(res)
    \/ Logout
    \/ Reload
    \/ Restart
    \/ Construct("cart")
    \/ TimerFires
    \/ Tick

SpecAuth == InitCommon /\ [][NextAuth]_vars

\* the credential record a restoration finds: the sessionStorage one when it is
\* complete, else the cookie one
FoundRecord(l) == IF Complete(l.session) THEN l.session ELSE l.cookie
Restored == last.op \in {"reload", "restart"}
FoundExpired == Complete(FoundRecord(last)) /\ ParseInt(FoundRecord(last).expiry).n <= now
FoundValid == Complete(FoundRecord(last)) /\ ParseInt(FoundRecord(last).expiry).n > now

\* C7: a restoration that finds a complete record whose expiry has passed ends
\* Anonymous with auth_user, auth_token and auth_token_expiry in neither tier.
C7_ExpiredRestoration ==
    (Restored /\ FoundExpired) =>
        /\ ~isAuthenticated
        /\ currentUser = Null
        /\ \A k \in AuthKeys : ~Has(sessionStorage, k) /\ ~Has(cookies, k)

\* an expired record was found in the cookies, sessionStorage being empty
C7_Witness ==
    /\ last.op = "restart" /\ FoundExpired
    /\ authOutcome = "expired"

\* C8: a restoration that finds a complete record that has not expired leaves the
\* token and the expiry readable from the tiers as they were.
C8_RestorationIdempotent ==
    (Restored /\ FoundValid) =>
        /\ ReadThrough(TOKEN_KEY) = FoundRecord(last).token
        /\ ReadThrough(TOKEN_EXPIRY_KEY) = FoundRecord(last).expiry

\* a valid record was restored from the cookies into an empty sessionStorage
C8_Witness ==
    /\ last.op = "restart" /\ FoundValid
    /\ Has(sessionStorage, TOKEN_KEY)

(***************************************************************************)
(* The dual-tier store under a client that writes, removes and reads back. *)
(***************************************************************************)
NextStore ==
    \/ \E k \in ProbeKeys, v \in StoreValues : StoreSet(k, v)
    \/ \E k \in ProbeKeys : StoreRemove(k)
    \/ ClearSession

SpecStore == InitCommon /\ [][NextStore]_vars

\* C6: a value written under a key to both tiers is read back equal, right after
\* the write and after sessionStorage has been cleared.
C6_StoreRoundTrip ==
    \A k \in ProbeKeys : "v" \in DOMAIN probe[k] => ReadThrough(k) = probe[k].v

(***************************************************************************)
(* Two users taking turns at one browser: logins, logouts, mutations of    *)
(* the caches, and requests to the remote authority that complete later.   *)
(***************************************************************************)
\* the logins, one per user
IdentityResponses == {res \in AuthResponses : res.expiresIn # 1}
\* the product put into the cart and into the favorites
IdentityProduct == CHOOSE p \in ProductArgs : p.productId = "p1" /\ HasStock(p.maxStock)
IdentityFavorite == CHOOSE p \in FavoriteArgs : p.productId = "p1"
\* the collections in the bodies of the responses
IdentityCarts == {c \in ServerCarts : Len(c) = 1}
IdentityFavorites == {f \in ServerFavorites : Len(f) = 1}

NextIdentity ==
    \/ \E res \in IdentityResponses : HandleAuthSuccess(res)
    \/ Logout
    \/ AddToCart(IdentityProduct, 2)
    \/ AddToFavorites(IdentityFavorite)
    \/ SyncCartWithBackend
    \/ LoadCartFromBackend
    \/ SyncFavoritesWithBackend
    \/ LoadFavoritesFromBackend
    \/ \E i \in 1..Len(requests), c \in IdentityCarts : CartSyncSuccess(i, c)
    \/ \E i \in 1..Len(requests) : CartSyncFailure(i)
    \/ \E i \in 1..Len(requests), c \in IdentityCarts : CartLoadSuccess(i, c)
    \/ \E i \in 1..Len(requests) : CartLoadFailure(i)
    \/ \E i \in 1..Len(requests), f \in IdentityFavorites : FavSyncSuccess(i, f)
    \/ \E i \in 1..Len(requests) : FavSyncFailure(i)
    \/ \E i \in 1..Len(requests), f \in IdentityFavorites : FavLoadSuccess(i, f)
    \/ \E i \in 1..Len(requests) : FavLoadFailure(i)

SpecIdentity == InitCaches /\ [][NextIdentity]_vars

\* the persisted collections of user u, in either tier
PersistedOf(ss, ck, u) ==
    <<ss[CartKey(u)], ck[CartKey(u)], ss[FavKey(u)], ck[FavKey(u)]>>

\* C4: the persisted cart and favorites of a user change only in a step that was
\* initiated while that user was the active identity; a login or a logout changes
\* nobody's.
C4_NoForeignWrite ==
    [][\A u \in Users :
           PersistedOf(sessionStorage', cookies', u) # PersistedOf(sessionStorage, cookies, u)
               => ("by" \in DOMAIN last' /\ last'.by = u)]_vars

(***************************************************************************)
(* Two users taking turns at one browser, each with a cart and favorites.  *)
(***************************************************************************)
NextSessions ==
    \/ \E res \in IdentityResponses : HandleAuthSuccess(res)
    \/ Logout
    \/ AddToCart(IdentityProduct, 1)
    \/ RemoveFromCart(IdentityProduct.productId)
    \/ AddToFavorites(IdentityFavorite)
    \/ RemoveFromFavorites(IdentityFavorite.productId)

SpecSessions == InitCaches /\ [][NextSessions]_vars

\* C5: a logout leaves both caches empty and the collections of the user who
\* logged out readable from either tier; the next login of that user puts the
\* same collections back in memory.
C5_LogoutLoginRoundTrip ==
    /\ last.op = "logout" =>
          /\ cartItems = <<>>
          /\ favoriteItems = <<>>
          /\ \A u \in Users :
                /\ last.cartUser = u =>
                      /\ LoadCartFromStorage(sessionStorage, EmptyStore, u) = atLogout[u].cart[1]
                      /\ LoadCartFromStorage(EmptyStore, cookies, u) = atLogout[u].cart[1]
                /\ last.favUser = u =>
                      /\ LoadFavoritesFromStorage(sessionStorage, EmptyStore, u)
                             = atLogout[u].favorites[1]
                      /\ LoadFavoritesFromStorage(EmptyStore, cookies, u)
                             = atLogout[u].favorites[1]
    /\ last.op = "handleAuthSuccess" =>
          /\ last.after.cart # <<>> => cartItems = last.after.cart[1]
          /\ last.after.favorites # <<>> => favoriteItems = last.after.favorites[1]

\* a user who logged out with a cart and favorites has logged in again, after
\* the other user had been active
C5_Witness ==
    /\ last.op = "handleAuthSuccess"
    /\ last.after.cart # <<>> /\ last.after.cart[1] # <<>>
    /\ last.after.favorites # <<>> /\ last.after.favorites[1] # <<>>
    /\ cartItems # <<>> /\ favoriteItems # <<>>
    /\ \E u \in Users \ {last.user} : Has(cookies, CartKey(u))

\* C11: addToFavorites of a productId that is already in the collection changes
\* nothing, so the one entry of that productId keeps the addedAt of the first add;
\* after any addToFavorites the productId has exactly one entry.
C11_AddFavoriteIdempotent ==
    last.op = "addToFavorites" =>
        /\ Cardinality({i \in 1..Len(favoriteItems) :
                            favoriteItems[i].productId = last.productId}) = 1
        /\ last.productId \in IdsOf(last.before) => favoriteItems = last.before

\* a favorite was added again at a later time than its first add
C11_Witness ==
    /\ last.op = "addToFavorites"
    /\ last.productId \in IdsOf(last.before)
    /\ GetTime(ItemOf(last.before, last.productId).addedAt) < now

(***************************************************************************)
(* The callbacks of the caches and of a client whose callbacks throw,      *)
(* registered in any order, under logins and logouts.                      *)
(***************************************************************************)
NextCallbacks ==
    \/ \E service \in {"cart", "favorites", FaultyCallback} : Construct(service)
    \/ \E res \in IdentityResponses : HandleAuthSuccess(res)
    \/ Logout
    \/ AddToCart(IdentityProduct, 1)

SpecCallbacks == InitCommon /\ [][NextCallbacks]_vars

\* one call per registered callback, in the order of registration
OncePerCallback(calls, arg) ==
    /\ Len(calls) = Len(callbacks)
    /\ \A i \in 1..Len(calls) : calls[i].cb = callbacks[i] /\ calls[i].arg = arg

\* C12: a login calls every registered login callback once with the user id, in
\* registration order, whether or not an earlier one threw, and ends
\* authenticated with the caches switched to the user; a logout does the same
\* with the logout callbacks.
C12_CallbacksIsolated ==
    /\ last.op = "handleAuthSuccess" =>
          /\ OncePerCallback(last.calls, last.user)
          /\ isAuthenticated
          /\ Registered("cart") => cartUserId = last.user
          /\ Registered("favorites") => favUserId = last.user
    /\ last.op = "logout" =>
          /\ OncePerCallback(last.calls, NoUser)
          /\ ~isAuthenticated
          /\ Registered("cart") => cartUserId = NoUser /\ cartItems = <<>>
          /\ Registered("favorites") => favUserId = NoUser

\* a login during which a callback threw before the cart's callback ran, and the
\* cart loaded the user's lines
C12_Witness ==
    /\ last.op = "handleAuthSuccess"
    /\ \E i, j \in 1..Len(last.calls) :
          i < j /\ last.calls[i].threw /\ last.calls[j].cb = "cart"
    /\ cartUserId = last.user
    /\ cartItems # <<>>

(***************************************************************************)
(* Logins as requests that the remote authority accepts or rejects.        *)
(***************************************************************************)
NextLogin ==
    \/ \E kind \in AuthKinds : IssueAuth(kind)
    \/ \E i \in 1..Len(requests), res \in AuthResponses : AuthAccepted(i, res)
    \/ \E i \in 1..Len(requests) : AuthRejected(i)
    \/ Logout
    \/ Construct("cart")
    \/ Tick

SpecLogin == InitCommon /\ [][NextLogin]_vars

\* C13: a rejected login, register or Google login that was sent while Anonymous
\* leaves the session Anonymous and both tiers as they were, calls no login
\* callback, and its caller receives the error.
C13_RejectedLogin ==
    (last.op = "authRejected" /\ last.by = NoUser /\ ~last.authenticated) =>
        /\ ~isAuthenticated
        /\ currentUser = Null
        /\ sessionStorage = last.session
        /\ cookies = last.cookie
        /\ last.calls = <<>>
        /\ last.outcome = "error"

\* C14: a logout of an authenticated session calls every registered logout
\* callback while the credential keys are still in the tiers, and ends Anonymous
\* with auth_user, auth_token and auth_token_expiry in neither tier.
C14_LogoutOrder ==
    (last.op = "logout" /\ last.authenticated) =>
        /\ OncePerCallback(last.calls, NoUser)
        /\ last.seen = <<last.before>>
        /\ ~isAuthenticated
        /\ currentUser = Null
        /\ AuthPresent(sessionStorage, cookies) = [session |-> {}, cookie |-> {}]

\* a logged-in user with the three keys in both tiers logged out, with the
\* callbacks of both caches registered
C14_Witness ==
    /\ last.op = "logout" /\ last.authenticated
    /\ last.before = [session |-> AuthKeys, cookie |-> AuthKeys]
    /\ Called("cart", last.calls) /\ Called("favorites", last.calls)

\* the add of quantity units of product to items would pass the limit of the line
\* it lands on: the line already in the cart, else the new line
AddExceeds(items, product, quantity) ==
    LET i == FindIndex(items, product.productId)
    IN  IF i > 0 THEN items[i].quantity + quantity > LineLimit(items[i])
        ELSE quantity > LineLimit([maxStock |-> product.maxStock])

\* the update of the line of productId to quantity would pass the line's limit
UpdateExceeds(items, productId, quantity) ==
    LET i == FindIndex(items, productId)
    IN  i > 0 /\ quantity > 0 /\ quantity > LineLimit(items[i])

\* C15: an addToCart or updateQuantity that would take a line past
\* min(maxStock, 99) leaves the in-memory cart and both tiers as they were.
C15_RejectedWhole ==
    [][/\ \A p \in ProductArgs, q \in QuantityArgs :
              (AddToCart(p, q) /\ AddExceeds(cartItems, p, q))
                  => UNCHANGED <<cartItems, sessionStorage, cookies>>
       /\ \A id \in ProductIds, q \in QuantityArgs :
              (UpdateQuantity(id, q) /\ UpdateExceeds(cartItems, id, q))
                  => UNCHANGED <<cartItems, sessionStorage, cookies>>]_vars

(***************************************************************************)
(* Every mutation of the two caches, by a user and by a guest.             *)
(***************************************************************************)
\* the quantities requested of the mutations
MutationQuantities == {0, 2, 3}

NextMutations ==
    \/ AddToCart(IdentityProduct, 1)
    \/ \E q \in MutationQuantities : UpdateQuantity(IdentityProduct.productId, q)
    \/ RemoveFromCart(IdentityProduct.productId)
    \/ ClearCart
    \/ AddToFavorites(IdentityFavorite)
    \/ RemoveFromFavorites(IdentityFavorite.productId)
    \/ ClearFavorites
    \/ Logout
    \/ \E res \in IdentityResponses : HandleAuthSuccess(res)

SpecMutations == InitCaches /\ [][NextMutations]_vars

\* the last step was a cart mutation of an active user that reached cartItems.set
CartApplied ==
    /\ last.op \in {"addToCart", "removeFromCart", "updateQuantity"}
    /\ last.by # NoUser
    /\ "ok" \in DOMAIN last => last.ok
\* the last step was a favorites mutation of an active user that set the list
FavApplied ==
    /\ last.op \in {"addToFavorites", "removeFromFavorites"}
    /\ last.by # NoUser
    /\ last.op = "addToFavorites" => last.productId \notin IdsOf(last.before)
CartCleared == last.op = "clearCart" /\ last.by # NoUser
FavCleared == last.op = "clearFavorites" /\ last.by # NoUser

\* both tiers hold the in-memory collection under the key of user u
TiersHoldCart(u) ==
    /\ GetSessionItem(sessionStorage, CartKey(u)) = CartList(cartItems)
    /\ GetCookie(cookies, CartKey(u)) = CartList(cartItems)
TiersHoldFavorites(u) ==
    LET s == GetSessionItem(sessionStorage, FavKey(u))
        c == GetCookie(cookies, FavKey(u))
    IN  /\ s.t = "favs" /\ ParseFavorites(s.favs) = favoriteItems
        /\ c.t = "favs" /\ ParseFavorites(c.favs) = favoriteItems

\* C16 as stated: after an add, remove, update or clear of an active user both
\* tiers hold the resulting collection under the user's key.
C16_WriteThrough ==
    /\ (CartApplied \/ CartCleared) => TiersHoldCart(last.by)
    /\ (FavApplied \/ FavCleared) => TiersHoldFavorites(last.by)

\* C16 amended: after an add, remove or update of an active user both tiers hold
\* the resulting collection under the user's key; after a clear the collection is
\* empty and neither tier has an entry under the key.
C16_WriteThroughOrRemoved ==
    /\ CartApplied => TiersHoldCart(last.by)
    /\ FavApplied => TiersHoldFavorites(last.by)
    /\ CartCleared =>
          /\ cartItems = <<>>
          /\ ~Has(sessionStorage, CartKey(last.by)) /\ ~Has(cookies, CartKey(last.by))
    /\ FavCleared =>
          /\ favoriteItems = <<>>
          /\ ~Has(sessionStorage, FavKey(last.by)) /\ ~Has(cookies, FavKey(last.by))

\* a user's update of a line was written to the tiers over an older entry, the
\* user having favorites as well
C16_Witness ==
    /\ CartApplied /\ last.op = "updateQuantity"
    /\ Len(cartItems) = 1 /\ cartItems[1].quantity = 2
    /\ favoriteItems # <<>>

(***************************************************************************)
(* The caches of a guest, before a login and after a logout, under every   *)
(* operation and every completion of a request.                            *)
(***************************************************************************)
NextGuest ==
    \/ HandleAuthSuccess(FirstLogin)
    \/ Logout
    \/ AddToCart(IdentityProduct, 1)
    \/ UpdateQuantity(IdentityProduct.productId, 2)
    \/ RemoveFromCart(IdentityProduct.productId)
    \/ ClearCart
    \/ \E c \in IdentityCarts : MergeCartOnLogin(c)
    \/ LoadCartFromBackend
    \/ \E i \in 1..Len(requests), c \in IdentityCarts : CartSyncSuccess(i, c)
    \/ \E i \in 1..Len(requests) : CartSyncFailure(i)
    \/ \E i \in 1..Len(requests), c \in IdentityCarts : CartLoadSuccess(i, c)
    \/ \E i \in 1..Len(requests) : CartLoadFailure(i)
    \/ AddToFavorites(IdentityFavorite)
    \/ ClearFavorites
    \/ \E f \in IdentityFavorites : MergeFavoritesOnLogin(f)
    \/ \E i \in 1..Len(requests), f \in IdentityFavorites : FavSyncSuccess(i, f)
    \/ \E i \in 1..Len(requests) : FavSyncFailure(i)

SpecGuest == InitCaches /\ [][NextGuest]_vars

CartOpNames ==
    {"addToCart", "removeFromCart", "updateQuantity", "incrementQuantity",
     "decrementQuantity", "clearCart", "mergeCartOnLogin", "cartSyncSuccess",
     "cartSyncFailure", "cartLoadSuccess", "cartLoadFailure"}
FavOpNames ==
    {"addToFavorites", "removeFromFavorites", "clearFavorites", "mergeFavoritesOnLogin",
     "favSyncSuccess", "favSyncFailure", "favLoadSuccess", "favLoadFailure"}

\* C17: a cart operation or completion that runs while the cart has no user id,
\* and a favorites one that runs while the favorites have none, leaves
\* sessionStorage and the cookies as they were.
C17_GuestNoWrite ==
    [][((last'.op \in CartOpNames /\ cartUserId = NoUser)
            \/ (last'.op \in FavOpNames /\ favUserId = NoUser))
          => UNCHANGED <<sessionStorage, cookies>>]_vars

\* after a logout a response put a cart in the guest's memory that differs from
\* the one the tiers keep for the user
C17_Witness ==
    /\ last.op \in {"cartSyncSuccess", "cartLoadSuccess"}
    /\ cartUserId = NoUser
    /\ cartItems # <<>>
    /\ Has(sessionStorage, CartKey("u1")) /\ Has(cookies, CartKey("u1"))
    /\ LoadCartFromStorage(sessionStorage, cookies, "u1") # cartItems

(***************************************************************************)
(* syncCartWithBackend and syncFavoritesWithBackend and their responses.   *)
(***************************************************************************)
\* the collections in the bodies of the responses, the empty one included
RemoteCarts == {c \in ServerCarts : Len(c) <= 1}
RemoteFavorites == {f \in ServerFavorites : Len(f) <= 1}

NextRemoteSync ==
    \/ HandleAuthSuccess(FirstLogin)
    \/ Logout
    \/ AddToCart(IdentityProduct, 1)
    \/ AddToFavorites(IdentityFavorite)
    \/ SyncCartWithBackend
    \/ SyncFavoritesWithBackend
    \/ \E i \in 1..Len(requests), c \in RemoteCarts : CartSyncSuccess(i, c)
    \/ \E i \in 1..Len(requests) : CartSyncFailure(i)
    \/ \E i \in 1..Len(requests), f \in RemoteFavorites : FavSyncSuccess(i, f)
    \/ \E i \in 1..Len(requests) : FavSyncFailure(i)

SpecRemoteSync == InitCaches /\ [][NextRemoteSync]_vars

\* the tiers hold the cart, and the favorites, of the active user if there is one
CartPersisted == cartUserId # NoUser => TiersHoldCart(cartUserId)
FavoritesPersisted == favUserId # NoUser => TiersHoldFavorites(favUserId)

\* C18: a successful sync response replaces the in-memory collection by the list
\* in the response and persists it; a failed request leaves the collection and
\* both tiers unchanged and resolves with {success: false} and the unchanged
\* collection.
C18_SyncNeverFails ==
    [][/\ last'.op = "cartSyncSuccess" =>
              (cartItems = last.resolved.cart /\ CartPersisted)'
       /\ last'.op = "favSyncSuccess" =>
              (favoriteItems = ParseFavorites(last.resolved.favorites)
                   /\ FavoritesPersisted)'
       /\ last'.op = "cartSyncFailure" =>
              /\ UNCHANGED <<cartItems, sessionStorage, cookies>>
              /\ last'.resolved = [success |-> FALSE, cart |-> cartItems]
       /\ last'.op = "favSyncFailure" =>
              /\ UNCHANGED <<favoriteItems, sessionStorage, cookies>>
              /\ last'.resolved = [success |-> FALSE, favorites |-> favoriteItems]]_vars

\* a sync of a user's cart failed with lines in the cart, after an earlier
\* response had replaced it
C18_Witness ==
    /\ last.op = "cartSyncFailure"
    /\ cartUserId # NoUser
    /\ last.resolved.cart # <<>>
    /\ \E c \in RemoteCarts : c # <<>> /\ cartItems = c

(***************************************************************************)
(* loadCartFromBackend and loadFavoritesFromBackend and their responses.   *)
(***************************************************************************)
NextRemoteLoad ==
    \/ HandleAuthSuccess(FirstLogin)
    \/ Logout
    \/ AddToCart(IdentityProduct, 1)
    \/ AddToFavorites(IdentityFavorite)
    \/ LoadCartFromBackend
    \/ LoadFavoritesFromBackend
    \/ \E i \in 1..Len(requests), c \in RemoteCarts : CartLoadSuccess(i, c)
    \/ \E i \in 1..Len(requests) : CartLoadFailure(i)
    \/ \E i \in 1..Len(requests), f \in RemoteFavorites : FavLoadSuccess(i, f)
    \/ \E i \in 1..Len(requests) : FavLoadFailure(i)

SpecRemoteLoad == InitCaches /\ [][NextRemoteLoad]_vars

\* C19: a successful load response replaces the in-memory collection by the
\* authority's copy and persists it; a failed request resolves with an empty
\* collection and changes nothing.
C19_LoadBestEffort ==
    [][/\ last'.op = "cartLoadSuccess" =>
              (cartItems = last.resolved /\ CartPersisted)'
       /\ last'.op = "favLoadSuccess" =>
              (favoriteItems = ParseFavorites(last.resolved) /\ FavoritesPersisted)'
       /\ last'.op = "cartLoadFailure" =>
              /\ last'.resolved = <<>>
              /\ UNCHANGED <<cartItems, sessionStorage, cookies>>
       /\ last'.op = "favLoadFailure" =>
              /\ last'.resolved = <<>>
              /\ UNCHANGED <<favoriteItems, sessionStorage, cookies>>]_vars

\* a load put the copy of the authority in the cart of a user and in both
\* tiers
C19_Witness ==
    /\ last.op = "cartLoadSuccess"
    /\ cartUserId # NoUser
    /\ cartItems # <<>>
    /\ cartItems[1].maxStock # IdentityProduct.maxStock
    /\ TiersHoldCart(cartUserId)

(***************************************************************************)
(* Requests passing the interceptor between logins, logouts and page loads. *)
(***************************************************************************)
NextRequests ==
    \/ \E res \in AuthResponses : HandleAuthSuccess(res)
    \/ Logout
    \/ Reload
    \/ Restart
    \/ Intercept
    \/ Tick

SpecRequests == InitCommon /\ [][NextRequests]_vars

\* C20: a request that passes the interceptor while a tier holds a token leaves
\* with Authorization: Bearer <the token issued at the last login>; when neither
\* tier holds one it leaves without the header.
C20_BearerHeader ==
    last.op = "intercept" =>
        IF Has(sessionStorage, TOKEN_KEY) \/ Has(cookies, TOKEN_KEY)
        THEN issuedToken # <<>> /\ last.header = <<Bearer(issuedToken[1])>>
        ELSE last.header = <<>>

(***************************************************************************)
(* Page loads with the caches constructed before the deferred notification *)
(* of a restoration runs.                                                  *)
(***************************************************************************)
\* the logins of one user, with a token that lasts and with one that expires
StartupResponses == {res \in AuthResponses : res.user.id = "u1"}

NextStartup ==
    \/ \E res \in StartupResponses : HandleAuthSuccess(res)
    \/ Logout
    \/ Reload
    \/ Restart
    \/ \E service \in {"cart", "favorites"} : Construct(service)
    \/ DeferredNotifyLogin
    \/ AddToCart(IdentityProduct, 1)
    \/ Tick

SpecStartup == InitCommon /\ [][NextStartup]_vars

C22_StaleResponseIgnored ==
    [][((last'.op \in {"cartSyncSuccess", "cartSyncFailure", "cartLoadSuccess",
                       "cartLoadFailure"}
            /\ last'.by # NoUser /\ last'.by # cartUserId)
        \/ (last'.op \in {"favSyncSuccess", "favSyncFailure", "favLoadSuccess",
                          "favLoadFailure"}
            /\ last'.by # NoUser /\ last'.by # favUserId))
          => UNCHANGED <<cartItems, favoriteItems, sessionStorage, cookies>>]_vars

\* C29: a deferred notifyLogin that runs after a logout, the session being
\* Anonymous, leaves every registered cache without a user id.
C29_NoLoadAfterLogout ==
    (last.op = "notifyLogin" /\ ~last.authenticated) =>
        /\ ~isAuthenticated
        /\ Registered("cart") => cartUserId = NoUser
        /\ Registered("favorites") => favUserId = NoUser

(***************************************************************************)
(* A guest fills the caches, logs in, and the caches are merged with the   *)
(* copies of the remote authority.                                         *)
(***************************************************************************)
NextMergeOnLogin ==
    \/ HandleAuthSuccess(FirstLogin)
    \/ Logout
    \/ AddToCart(IdentityProduct, 1)
    \/ AddToFavorites(IdentityFavorite)
    \/ \E c \in RemoteCarts : MergeCartOnLogin(c)
    \/ \E f \in RemoteFavorites : MergeFavoritesOnLogin(f)
    \/ \E i \in 1..Len(requests), c \in RemoteCarts : CartSyncSuccess(i, c)
    \/ \E i \in 1..Len(requests) : CartSyncFailure(i)
    \/ \E i \in 1..Len(requests), f \in RemoteFavorites : FavSyncSuccess(i, f)
    \/ \E i \in 1..Len(requests) : FavSyncFailure(i)

SpecMergeOnLogin == InitCaches /\ [][NextMergeOnLogin]_vars

\* C23: after a login followed at once by mergeCartOnLogin (mergeFavoritesOnLogin),
\* every item the guest had in the cache before the login and that the server
\* list lacks is in the merged in-memory collection.
C23_GuestItemsMerged ==
    /\ last.op = "mergeCartOnLogin" =>
          \A id \in IdsOf(last.guest) \ IdsOf(last.server) : id \in IdsOf(cartItems)
    /\ last.op = "mergeFavoritesOnLogin" =>
          \A id \in IdsOf(last.guest) \ IdsOf(last.server) : id \in IdsOf(favoriteItems)

(***************************************************************************)
(* A session whose token expires while the page is open.                   *)
(***************************************************************************)
NextExpiry ==
    \/ \E res \in AuthResponses : HandleAuthSuccess(res)
    \/ Logout
    \/ IsTokenExpired
    \/ Reload
    \/ Restart
    \/ \E service \in {"cart", "favorites"} : Construct(service)
    \/ Tick

SpecExpiry == InitCommon /\ [][NextExpiry]_vars

\* C24: an isTokenExpired check that is made while Authenticated and finds the
\* stored expiry passed leaves the session Anonymous, the logout callbacks
\* called and the credential keys in neither tier.
C24_ExpiredCheckLogsOut ==
    (last.op = "isTokenExpired" /\ last.authenticated /\ last.result) =>
        /\ ~isAuthenticated
        /\ currentUser = Null
        /\ OncePerCallback(last.calls, NoUser)
        /\ AuthPresent(sessionStorage, cookies) = [session |-> {}, cookie |-> {}]

\* C25: while isAuthenticated is true the tiers hold an expiry that lies in the
\* future.
C25_AuthenticatedNotExpired ==
    isAuthenticated =>
        /\ Truthy(ReadThrough(TOKEN_EXPIRY_KEY))
        /\ ~ParseInt(ReadThrough(TOKEN_EXPIRY_KEY)).nan
        /\ now < ParseInt(ReadThrough(TOKEN_EXPIRY_KEY)).n

(***************************************************************************)
(* mergeCartOnLogin over the local carts that addToCart builds, a product  *)
(* that is out of stock (maxStock 0) among them.                           *)
(***************************************************************************)
MergeProducts ==
    { [productId |-> "p1", name |-> "Dune", maxStock |-> <<2>>],
      [productId |-> "p2", name |-> "Heat", maxStock |-> <<3>>],
      [productId |-> "p2", name |-> "Heat", maxStock |-> <<0>>] }
MergeAddQuantities == {2, 50}

NextMergeFormula ==
    \/ \E p \in MergeProducts, q \in MergeAddQuantities : AddToCart(p, q)
    \/ \E id \in ProductIds : RemoveFromCart(id)
    \/ \E c \in ServerCarts : MergeCartOnLogin(c)
    \/ \E i \in 1..Len(requests) : CartSyncFailure(i)

SpecMergeFormula == InitCaches /\ [][NextMergeFormula]_vars

RECURSIVE LocalOnly(_, _)
\* the lines of localCart whose productId no line of serverCart has, in order
LocalOnly(localCart, serverCart) ==
    IF localCart = <<>> THEN <<>>
    ELSE IF Head(localCart).productId \in IdsOf(serverCart)
         THEN LocalOnly(Tail(localCart), serverCart)
         ELSE <<Head(localCart)>> \o LocalOnly(Tail(localCart), serverCart)

\* the smaller of two numbers
Lesser(a, b) == IF a <= b THEN a ELSE b

\* C26: after mergeCartOnLogin the cart is the server list, in which a line whose
\* productId the local cart has carries min(server quantity + local quantity,
\* the local line's maxStock or 99 when it has none, 99), followed by the local
\* lines whose productId the server list lacks.
C26_MergeFormula ==
    last.op = "mergeCartOnLogin" =>
        LET sv == last.server
            lc == last.local
        IN  /\ Len(cartItems) >= Len(sv)
            /\ \A j \in 1..Len(sv) :
                  IF sv[j].productId \in IdsOf(lc)
                  THEN LET l == ItemOf(lc, sv[j].productId)
                           stock == IF l.maxStock = NoStock THEN MAX_QUANTITY_PER_ITEM
                                    ELSE l.maxStock[1]
                       IN  cartItems[j] =
                              [sv[j] EXCEPT !.quantity =
                                  Lesser(Lesser(sv[j].quantity + l.quantity, stock),
                                         MAX_QUANTITY_PER_ITEM)]
                  ELSE cartItems[j] = sv[j]
            /\ SubSeq(cartItems, Len(sv) + 1, Len(cartItems)) = LocalOnly(lc, sv)

\* the user a stored auth_user value stands for: the value itself, or the user
\* whose JSON text it is
StoredUser(v) == IF v.t = "str" THEN JSONParse(v.s).v ELSE v

\* C27: a reload that finds a complete record that has not expired in
\* sessionStorage ends Authenticated as the user of that record, whether
\* handleAuthSuccess or an earlier restoration from the cookies wrote it.
C27_SessionRecordRestored ==
    (last.op = "reload" /\ Complete(last.session)
        /\ ~ParseInt(last.session.expiry).nan /\ now < ParseInt(last.session.expiry).n) =>
        /\ isAuthenticated
        /\ currentUser = StoredUser(last.session.user)

(***************************************************************************)
(* A session with requests in flight to the remote authority: logins,      *)
(* refreshToken, verifySession and updateUserProfile, and logouts between  *)
(* a request and its response.                                             *)
(***************************************************************************)
NextInFlight ==
    \/ \E kind \in AuthKinds \cup SessionKinds : IssueAuth(kind)
    \/ \E i \in 1..Len(requests), res \in IdentityResponses : AuthAccepted(i, res)
    \/ \E i \in 1..Len(requests) : AuthRejected(i)
    \/ \E i \in 1..Len(requests), res \in IdentityResponses : RefreshAccepted(i, res)
    \/ \E i \in 1..Len(requests) : RefreshRejected(i)
    \/ \E i \in 1..Len(requests), valid \in BOOLEAN : VerifyCompleted(i, valid)
    \/ \E i \in 1..Len(requests), user \in ProfileResponses : ProfileUpdated(i, user)
    \/ \E i \in 1..Len(requests) : ProfileFailed(i)
    \/ Logout
    \/ AddToCart(IdentityProduct, 1)

SpecInFlight == InitCaches /\ [][NextInFlight]_vars

\* C28: the response of a refreshToken that a logged-in user sent, arriving
\* after a logout, while the session is Anonymous with no credential key in
\* either tier, leaves it so.
C28_RefreshAfterLogout ==
    [][\A i \in 1..Len(requests), res \in IdentityResponses :
           (/\ RefreshAccepted(i, res)
            /\ ~isAuthenticated
            /\ AuthPresent(sessionStorage, cookies) = [session |-> {}, cookie |-> {}])
               => (/\ ~isAuthenticated
                   /\ currentUser = Null
                   /\ AuthPresent(sessionStorage, cookies)
                          = [session |-> {}, cookie |-> {}])']_vars

\* C30: isAuthenticated is true exactly when currentUser is not null, and
\* auth_user is in a tier only while the session is Authenticated.
C30_AuthStateConsistent ==
    /\ isAuthenticated <=> currentUser # Null
    /\ (Has(sessionStorage, STORAGE_KEY) \/ Has(cookies, STORAGE_KEY)) => isAuthenticated

(***************************************************************************)
(* The bookings of two users taking turns at one browser.                  *)
(***************************************************************************)
NextBookings ==
    \/ \E service \in {"bookings", "cart"} : Construct(service)
    \/ \E res \in IdentityResponses : HandleAuthSuccess(res)
    \/ Logout
    \/ GetMyBookings
    \/ \E i \in 1..Len(requests), status \in {"success", "fail"} : BookingsResponse(i, status)
    \/ \E i \in 1..Len(requests) : BookingsFailed(i)
    \/ AddToCart(IdentityProduct, 1)

SpecBookings == InitCommon /\ [][NextBookings]_vars

\* C31: once the BookingService has registered, every booking in the list belongs
\* to the user who is logged in: the list is empty while nobody is.
C31_BookingsOfCurrentUser ==
    Registered("bookings") =>
        \A k \in 1..Len(bookings) :
            isAuthenticated /\ bookings[k].user = currentUser.user.id

====
